---- MODULE Spec2Model ----
(***************************************************************************)
(* A model of the SPH fluid simulation core of zzstoatzz/fluids: the       *)
(* spatial grid (spatial/grid.go), the Step pipeline of FluidSim           *)
(* (simulation/*.go), the parallelFor primitive and the live-tuning keys   *)
(* of RunSimulation (main.go).                                             *)
(*                                                                         *)
(* float64 quantities are modelled in fixed point over the integers:       *)
(*   - lengths (X, Y, radius, cell size, push-out) in length units;        *)
(*   - velocities in length units per step, with VScale sub-units so that  *)
(*     a force divided by a particle mass is exact;                        *)
(*   - every float division is FDiv: truncation toward zero, which like    *)
(*     float division is symmetric in the sign of its operands.            *)
(* Go's int is modelled with its sign and, where the code shifts and       *)
(* masks it, with a word of KeyBits bits per cell coordinate.              *)
(***************************************************************************)
EXTENDS Integers, Sequences, FiniteSets, TLC

----------------------------------------------------------------------------
(* Bounds of the model *)

\* number of particles handed to NewFluidSim
NumParticles == 3
\* Domain.X = Domain.Y, in length units
DomainSize == 4
\* initial jitter velocity is drawn from -MaxJitterVel..MaxJitterVel
MaxJitterVel == 1
\* particle masses are drawn from 1..MaxMass
MaxMass == 2
\* Step calls per run
MaxSteps == 2
\* presses of the keys e / t per run
MaxTunes == 1
\* bits of one packed cell coordinate (32 in the code)
KeyBits == 4
\* seeds of the random generator handed to NewFluidSim: 0..MaxSeed
MaxSeed == 63

----------------------------------------------------------------------------
(* Arithmetic helpers *)

Abs(a) == IF a < 0 THEN -a ELSE a

Max(a, b) == IF a >= b THEN a ELSE b

Min(a, b) == IF a <= b THEN a ELSE b

RECURSIVE Pow2(_)
Pow2(n) == IF n = 0 THEN 1 ELSE 2 * Pow2(n - 1)

\* float64 division a / b in fixed point: the quotient truncated toward zero
FDiv(a, b) ==
  IF (a >= 0) = (b > 0) THEN Abs(a) \div Abs(b) ELSE -(Abs(a) \div Abs(b))

\* Go's int(f) conversion of the float quotient a / b: truncation toward zero
IntOfQuotient(a, b) == FDiv(a, b)

\* math.Floor of the quotient a / b (b > 0)
FloorQuotient(a, b) == a \div b

RECURSIVE Sqrt(_)
\* math.Sqrt in fixed point: the integer square root
Sqrt(n) ==
  IF n < 2 THEN Max(n, 0)
  ELSE LET r == 2 * Sqrt(n \div 4)
       IN IF (r + 1) * (r + 1) <= n THEN r + 1 ELSE r

RECURSIVE Gcd(_, _)
Gcd(a, b) == IF b = 0 THEN a ELSE Gcd(b, a % b)

RECURSIVE LcmUpTo(_)
LcmUpTo(n) == IF n <= 1 THEN 1 ELSE LET l == LcmUpTo(n - 1) IN (l * n) \div Gcd(l, n)

RECURSIVE SumOver(_, _)
\* sum of f[i] over the finite set S
SumOver(f, S) ==
  IF S = {} THEN 0
  ELSE LET i == CHOOSE j \in S : TRUE IN f[i] + SumOver(f, S \ {i})

SeqToSet(s) == {s[k] : k \in 1..Len(s)}

ParticleIds == 0..(NumParticles - 1)

Masses == 1..MaxMass

\* sub-units of one velocity unit: a multiple of every mass
VScale == LcmUpTo(MaxMass)

----------------------------------------------------------------------------
(* spatial/grid.go *)

KeyModulus == Pow2(KeyBits)

\* an int64 wraps: here a word of 2 * KeyBits bits
WrapKey(v) ==
  LET m == KeyModulus * KeyModulus
      r == v % m
  IN IF r >= m \div 2 THEN r - m ELSE r

\* (int64(cellX) << 32) | int64(cellY & 0xFFFFFFFF)
MakeCellIndex(cellX, cellY) ==
  WrapKey(cellX * KeyModulus + (cellY % KeyModulus))

\* int(int64(ci) >> 32), int(int64(ci) & 0xFFFFFFFF)
GetCoordinates(ci) == << ci \div KeyModulus, ci % KeyModulus >>

\* the cell coordinate Update computes from a position: int(p.X / g.CellSize)
CellCoord(x, cellSize) == IntOfQuotient(x, cellSize)

\* a cell list: a Go slice with its contents and its capacity
EmptySlice == [items |-> << >>, cap |-> 0]

\* append(s, idx): the capacity doubles when the slice is full
Append1(s, idx) ==
  [items |-> Append(s.items, idx),
   cap |-> IF Len(s.items) + 1 > s.cap THEN Max(1, 2 * s.cap) ELSE s.cap]

NewGrid(cellSize, domainX, domainY) ==
  [CellMap |-> << >>,
   CellSize |-> cellSize,
   NumCellsX |-> IntOfQuotient(domainX, cellSize),
   NumCellsY |-> IntOfQuotient(domainY, cellSize)]

\* a first loop that resets nothing: the lists keep the earlier step's entries
KeepCells(cellMap) == cellMap

\* the first loop of Update: keep the allocated slices, reset their length
ClearCells(cellMap) ==
  LET kept == {k \in DOMAIN cellMap : cellMap[k].cap > 0}
  IN [k \in kept |-> [items |-> << >>, cap |-> cellMap[k].cap]]

\* g.CellMap[cellIdx] = append(g.CellMap[cellIdx], idx)
AddToCell(cellMap, key, idx) ==
  [k \in DOMAIN cellMap \cup {key} |->
     IF k = key
     THEN Append1(IF key \in DOMAIN cellMap THEN cellMap[key] ELSE EmptySlice, idx)
     ELSE cellMap[k]]

\* the second loop of Update, from particle idx on: the cell map it builds
RECURSIVE FillCells(_, _, _, _)
FillCells(cellMap, ps, cellSize, idx) ==
  IF idx >= NumParticles THEN cellMap
  ELSE FillCells(
         AddToCell(cellMap,
                   MakeCellIndex(CellCoord(ps[idx].X, cellSize),
                                 CellCoord(ps[idx].Y, cellSize)),
                   idx),
         ps, cellSize, idx + 1)

\* Grid.Update: the grid and the particles (with their cached cells) after it
Update(g, ps) ==
  [grid |-> [g EXCEPT !.CellMap = FillCells(ClearCells(g.CellMap), ps, g.CellSize, 0)],
   particles |-> [i \in ParticleIds |->
                    [ps[i] EXCEPT !.CellX = CellCoord(ps[i].X, g.CellSize),
                                  !.CellY = CellCoord(ps[i].Y, g.CellSize)]]]

\* a query that looks at the particle's own cell only
OwnCellOnly == << <<0, 0>> >>

\* a query that looks at the own cell and the cells after it only
ForwardOffsets ==
  << <<0, 0>>, <<0, 1>>, <<1, -1>>, <<1, 0>>, <<1, 1>> >>

\* the order in which GetNeighborParticles visits the 3x3 block
BlockOffsets ==
  << <<-1, -1>>, <<-1, 0>>, <<-1, 1>>,
     <<0, -1>>, <<0, 0>>, <<0, 1>>,
     <<1, -1>>, <<1, 0>>, <<1, 1>> >>

RECURSIVE BlockScan(_, _, _, _)
BlockScan(cellMap, cellX, cellY, k) ==
  IF k > Len(BlockOffsets) THEN << >>
  ELSE LET cellIdx == MakeCellIndex(cellX + BlockOffsets[k][1], cellY + BlockOffsets[k][2])
           here == IF cellIdx \in DOMAIN cellMap THEN cellMap[cellIdx].items ELSE << >>
       IN here \o BlockScan(cellMap, cellX, cellY, k + 1)

GetNeighborParticles(g, cellX, cellY) == BlockScan(g.CellMap, cellX, cellY, 1)

----------------------------------------------------------------------------
(* spatial/kernel.go (the variant taking the radius h) *)

\* KERNEL_EPSILON: the smallest positive squared distance of the fixed point
KernelEpsilon == 1

\* math.Pi as the fraction PiNum / PiDen
PiNum == 22

PiDen == 7

\* math.Pow(math.Pi, 4) * math.Pi, rounded
PiPow5 == 306

\* densities and kernel values carry KernelScale sub-units
KernelScale == 1000

\* a kernel without the test distance >= h: the parabola continues beyond h
UnboundedKernel(distance, h) ==
  FDiv((h - distance) * (h - distance) * 6 * PiDen * KernelScale,
       PiNum + PiDen * h * h * h * h)

\* (h - distance)^2 / ((math.Pi + h^4) / 6), 0 outside the support
SmoothingKernel(distance, h) ==
  IF distance >= h THEN 0
  ELSE LET smoothingVolumeNum == PiNum + PiDen * h * h * h * h
       IN IF smoothingVolumeNum = 0 THEN 0
          ELSE FDiv((h - distance) * (h - distance) * 6 * PiDen * KernelScale,
                    smoothingVolumeNum)

\* (distance - h) * 12 / pi^5 in KernelScale sub-units, 0 outside the support
SmoothingKernelDerivative(distance, h) ==
  IF distance >= h THEN 0
  ELSE FDiv((distance - h) * 12 * KernelScale, PiPow5)

DistSq(p, q) == (p.X - q.X) * (p.X - q.X) + (p.Y - q.Y) * (p.Y - q.Y)

RECURSIVE DensityFrom(_, _, _, _)
DensityFrom(ps, idx, h, k) ==
  IF k > Len(ps[idx].NeighborIndices) THEN 0
  ELSE LET neighborIdx == ps[idx].NeighborIndices[k]
           distSq == DistSq(ps[idx], ps[neighborIdx])
           influence == IF idx # neighborIdx /\ distSq < h * h
                        THEN SmoothingKernel(Sqrt(distSq), h) ELSE 0
       IN influence + DensityFrom(ps, idx, h, k + 1)

\* a density without the particle's own contribution
DensityWithoutSelf(ps, idx, h) == DensityFrom(ps, idx, h, 1)

CalculateDensity(ps, idx, h) == DensityFrom(ps, idx, h, 1) + SmoothingKernel(0, h)

----------------------------------------------------------------------------
(* simulation: neighbours, density, pressure *)

\* SmoothingFactor is held in hundredths
SmoothingScale == 100

\* math.Max(dist, sim.SmoothingFactor * sim.InteractionRadius)
SmoothedDist(dist, s) == Max(dist, FDiv(s.SmoothingFactor * s.InteractionRadius, SmoothingScale))

RECURSIVE FilterWithSelf(_, _, _, _, _)
\* a loop without the test i == neighborIdx
FilterWithSelf(ps, i, potential, radiusSq, k) ==
  IF k > Len(potential) THEN << >>
  ELSE LET neighborIdx == potential[k]
           rest == FilterWithSelf(ps, i, potential, radiusSq, k + 1)
       IN IF DistSq(ps[i], ps[neighborIdx]) < radiusSq
          THEN << neighborIdx >> \o rest
          ELSE rest

RECURSIVE FilterNeighbors(_, _, _, _, _)
\* the loop of FindNeighbors over potentialNeighbors, from position k on
FilterNeighbors(ps, i, potential, radiusSq, k) ==
  IF k > Len(potential) THEN << >>
  ELSE LET neighborIdx == potential[k]
           rest == FilterNeighbors(ps, i, potential, radiusSq, k + 1)
       IN IF i = neighborIdx THEN rest
          ELSE IF DistSq(ps[i], ps[neighborIdx]) < radiusSq
               THEN << neighborIdx >> \o rest
               ELSE rest

\* the neighbour list FindNeighbors builds for particle i
NeighborsOf(ps, g, s, i) ==
  FilterNeighbors(ps, i, GetNeighborParticles(g, ps[i].CellX, ps[i].CellY),
                  s.InteractionRadius * s.InteractionRadius, 1)

FindNeighbors(ps, g, s) ==
  [i \in ParticleIds |-> [ps[i] EXCEPT !.NeighborIndices = NeighborsOf(ps, g, s, i)]]

UpdateDensities(ps, s) ==
  [i \in ParticleIds |-> [ps[i] EXCEPT !.Density = CalculateDensity(ps, i, s.InteractionRadius)]]

UpdatePressure(ps, s, pressureMultiplier) ==
  [i \in ParticleIds |->
     [ps[i] EXCEPT !.Pressure = pressureMultiplier * (ps[i].Density - s.Rho0)]]

----------------------------------------------------------------------------
(* simulation: forces *)

ZeroVec == [X |-> 0, Y |-> 0]

VecAdd(a, b) == [X |-> a.X + b.X, Y |-> a.Y + b.Y]

\* ApplyGravityForces: Force.Y += gravity * Mass for a particle of positive mass
ApplyGravityForces(ps, gravity) ==
  [i \in ParticleIds |->
     IF ps[i].Mass > 0
     THEN [ps[i] EXCEPT !.Force.Y = @ + gravity * ps[i].Mass]
     ELSE ps[i]]

\* the term particle idx accumulates from one neighbour in CalculatePressureForce
PressureTerm(p, neighbor, s, pressureMultiplier) ==
  LET dx == neighbor.X - p.X
      dy == neighbor.Y - p.Y
      distSq == dx * dx + dy * dy
      h == s.InteractionRadius
  IN IF distSq < KernelEpsilon \/ distSq >= h * h THEN ZeroVec
     ELSE LET smoothedDist == SmoothedDist(Sqrt(distSq), s)
              avgPressure == FDiv(p.Pressure + neighbor.Pressure, 2)
              forceMagnitude ==
                FDiv(avgPressure * SmoothingKernelDerivative(smoothedDist, h)
                       * pressureMultiplier, KernelScale)
          IN [X |-> FDiv(dx * forceMagnitude, smoothedDist),
              Y |-> FDiv(dy * forceMagnitude, smoothedDist)]

\* the term particle idx accumulates from one neighbour in CalculateViscosityForce
ViscosityTerm(p, neighbor, s) ==
  LET dx == neighbor.X - p.X
      dy == neighbor.Y - p.Y
      distSq == dx * dx + dy * dy
      h == s.InteractionRadius
  IN IF distSq < KernelEpsilon \/ distSq >= h * h THEN ZeroVec
     ELSE LET smoothedDist == SmoothedDist(Sqrt(distSq), s)
              viscosityFactor == SmoothingKernelDerivative(smoothedDist, h) * s.Nu
          IN [X |-> FDiv((neighbor.Vx - p.Vx) * viscosityFactor, KernelScale),
              Y |-> FDiv((neighbor.Vy - p.Vy) * viscosityFactor, KernelScale)]

\* math.Pow(densityDiff, 1.5) * 0.1 * pressureMultiplier
RepulsionStrength(densityDiff, pressureMultiplier) ==
  FDiv(densityDiff * Sqrt(densityDiff) * pressureMultiplier, 10)

\* the term particle idx accumulates from one neighbour in CalculateRepulsionForce
RepulsionTerm(p, neighbor, s, pressureMultiplier) ==
  LET densityDiff == neighbor.Density - p.Density
      dx == p.X - neighbor.X
      dy == p.Y - neighbor.Y
      distSq == dx * dx + dy * dy
      h == s.InteractionRadius
  IN IF densityDiff <= 0 THEN ZeroVec
     ELSE IF distSq < KernelEpsilon \/ distSq >= h * h THEN ZeroVec
     ELSE LET dist == Sqrt(distSq)
              repulsionStrength == RepulsionStrength(densityDiff, pressureMultiplier)
          IN [X |-> FDiv(dx * repulsionStrength, dist),
              Y |-> FDiv(dy * repulsionStrength, dist)]

RECURSIVE VecSum(_)
\* force.X += ..., force.Y += ... over a sequence of terms
VecSum(terms) ==
  IF terms = << >> THEN ZeroVec ELSE VecAdd(Head(terms), VecSum(Tail(terms)))

\* the neighbours particle idx iterates over, in list order
NeighborSeq(ps, idx) ==
  [k \in 1..Len(ps[idx].NeighborIndices) |-> ps[ps[idx].NeighborIndices[k]]]

CalculatePressureForce(ps, idx, s, pressureMultiplier) ==
  LET nbrs == NeighborSeq(ps, idx)
  IN VecSum([k \in 1..Len(nbrs) |-> PressureTerm(ps[idx], nbrs[k], s, pressureMultiplier)])

CalculateViscosityForce(ps, idx, s) ==
  LET nbrs == NeighborSeq(ps, idx)
  IN VecSum([k \in 1..Len(nbrs) |-> ViscosityTerm(ps[idx], nbrs[k], s)])

CalculateRepulsionForce(ps, idx, s, pressureMultiplier) ==
  LET nbrs == NeighborSeq(ps, idx)
  IN VecSum([k \in 1..Len(nbrs) |-> RepulsionTerm(ps[idx], nbrs[k], s, pressureMultiplier)])

CalculateStandardForces(ps, s, pressureMultiplier) ==
  [i \in ParticleIds |->
     [ps[i] EXCEPT !.Force =
        VecAdd(@, VecAdd(CalculatePressureForce(ps, i, s, pressureMultiplier),
                         VecAdd(CalculateViscosityForce(ps, i, s),
                                CalculateRepulsionForce(ps, i, s, pressureMultiplier))))]]

\* math.IsNaN: no fixed-point value is NaN
IsNaN(v) == FALSE

\* the force accumulateCellAttractionForces computes for the pair (p1, p2):
\* what is added to p1 and subtracted from p2; ZeroVec when the pair is skipped
PairForce(p1, p2, s, forceScale, interactionRadiusSq) ==
  LET dx == p2.X - p1.X
      dy == p2.Y - p1.Y
      distSq == dx * dx + dy * dy
  IN IF distSq >= interactionRadiusSq \/ distSq < KernelEpsilon THEN ZeroVec
     ELSE LET distance == Sqrt(distSq)
              smoothedDist == SmoothedDist(distance, s)
          IN IF smoothedDist < KernelEpsilon THEN ZeroVec
             ELSE LET massFactor == p1.Mass * p2.Mass
                      forceMagnitude == FDiv(forceScale * massFactor, smoothedDist * smoothedDist)
                      G == FDiv(forceMagnitude, distance)
                  IN IF IsNaN(G * dx) \/ IsNaN(G * dy) THEN ZeroVec
                     ELSE [X |-> G * dx, Y |-> G * dy]

\* whether accumulateCellAttractionForces reaches the accumulator updates for (p1, p2)
PairApplies(p1, p2, s, interactionRadiusSq) ==
  LET distSq == DistSq(p1, p2)
  IN /\ ~(distSq >= interactionRadiusSq \/ distSq < KernelEpsilon)
     /\ ~(SmoothedDist(Sqrt(distSq), s) < KernelEpsilon)

\* the (p1Idx, p2Idx) pairs one cell task visits with p1Idx < p2Idx, as the
\* triples <<offset, position in the cell list, position in the neighbour list>>
TaskVisits(ps, g, cellKey) ==
  LET cell == GetCoordinates(cellKey)
      own == g.CellMap[cellKey].items
      NKey(o) == MakeCellIndex(cell[1] + BlockOffsets[o][1], cell[2] + BlockOffsets[o][2])
      NItems(o) == IF NKey(o) \in DOMAIN g.CellMap THEN g.CellMap[NKey(o)].items ELSE << >>
  IN {<<own[a], NItems(o)[b], o, a, b>> :
        <<o, a, b>> \in {t \in (1..Len(BlockOffsets)) \X (1..Len(own)) \X (1..NumParticles) :
                           /\ t[3] <= Len(NItems(t[1]))
                           /\ own[t[2]] < NItems(t[1])[t[3]]}}

\* a visit that updates the first particle of the pair only
OneSidedDelta(ps, s, visit, q, forceScale, interactionRadiusSq) ==
  LET f == PairForce(ps[visit[1]], ps[visit[2]], s, forceScale, interactionRadiusSq)
  IN IF q = visit[1] THEN f ELSE ZeroVec

\* what one visit adds to particle q's entry of the task accumulator
VisitDelta(ps, s, visit, q, forceScale, interactionRadiusSq) ==
  LET f == PairForce(ps[visit[1]], ps[visit[2]], s, forceScale, interactionRadiusSq)
  IN IF q = visit[1] THEN f
     ELSE IF q = visit[2] THEN [X |-> -f.X, Y |-> -f.Y]
     ELSE ZeroVec

\* accumulateCellAttractionForces: the task-local map the task of cellKey fills
AccumulateCellAttractionForces(ps, g, s, cellKey, forceScale, interactionRadiusSq) ==
  LET visits == {v \in TaskVisits(ps, g, cellKey) :
                   PairApplies(ps[v[1]], ps[v[2]], s, interactionRadiusSq)}
      touched == {v[1] : v \in visits} \cup {v[2] : v \in visits}
  IN [q \in touched |->
        [X |-> SumOver([v \in visits |->
                          VisitDelta(ps, s, v, q, forceScale, interactionRadiusSq).X], visits),
         Y |-> SumOver([v \in visits |->
                          VisitDelta(ps, s, v, q, forceScale, interactionRadiusSq).Y], visits)]]

\* the task accumulators CalculateAttractionForces hands to reduceLocalForces
TaskAccumulators(ps, g, s) ==
  [cellKey \in DOMAIN g.CellMap |->
     AccumulateCellAttractionForces(ps, g, s, cellKey, s.AttractionFactor,
                                    s.InteractionRadius * s.InteractionRadius)]

\* reduceLocalForces: every entry of every task map is added to its particle
ReduceLocalForces(ps, localAccumulators) ==
  [i \in ParticleIds |->
     LET maps == {k \in DOMAIN localAccumulators : i \in DOMAIN localAccumulators[k]}
     IN [ps[i] EXCEPT
           !.Force.X = @ + SumOver([k \in maps |-> localAccumulators[k][i].X], maps),
           !.Force.Y = @ + SumOver([k \in maps |-> localAccumulators[k][i].Y], maps)]]

CalculateAttractionForces(ps, g, s) ==
  IF s.AttractionFactor = 0 \/ s.InteractionRadius <= 0 THEN ps
  ELSE IF DOMAIN g.CellMap = {} THEN ps
  ELSE ReduceLocalForces(ps, TaskAccumulators(ps, g, s))

\* DampeningFactor is held in thousandths per (60 * dt)
DragScale == 1000

\* ApplyDrag: velocity *= 1 - DampeningFactor * dt * 60 unless barely moving
ApplyDrag(ps, s, dt) ==
  IF ~s.DragEnabled THEN ps
  ELSE LET dragFactor == DragScale - s.DampeningFactor * dt * 60
       IN [i \in ParticleIds |->
             IF ps[i].Vx * ps[i].Vx + ps[i].Vy * ps[i].Vy < 1 THEN ps[i]
             ELSE [ps[i] EXCEPT !.Vx = FDiv(@ * dragFactor, DragScale),
                                !.Vy = FDiv(@ * dragFactor, DragScale)]]

----------------------------------------------------------------------------
(* spatial/boundaries.go and simulation/integration.go *)

\* pushOut = EPSILON * 2.0: the smallest offset of the fixed point
PushOut == 1

\* DAMPENING_FACTOR = 0.8, in tenths
BoundaryDampening == 8

\* RANDOMIZATION_FACTOR * 0.1 = 0.005, in thousandths
JitterPermille == 5

\* rand.Float64() * 2 - 1.0 for the draws 0, 1/2 and the largest one
JitterDraws == {-1, 0, 1}

\* the values RandomJitter(velocity) * 0.1 takes for these draws
JitterValues(velocity) ==
  {FDiv(d * Abs(velocity) * JitterPermille, 1000) : d \in JitterDraws}

\* a reflection that reverses the velocity and keeps its magnitude
Undampened(velocity) == {-velocity}

\* the reflected velocity: reversed, dampened, plus the jitter
Reflect(velocity) ==
  LET v == FDiv(velocity * (-BoundaryDampening), 10)
  IN {v + j : j \in JitterValues(v)}

\* a boundary resolution that wraps to the edge that was crossed
SameEdge(position, velocity, limit, boundaryType) ==
  {[pos |-> IF position >= limit THEN limit ELSE IF position <= 0 THEN 0 ELSE position,
    vel |-> velocity]}

\* a boundary resolution that leaves the particle where it is
NoBoundary(position, velocity, limit, boundaryType) ==
  {[pos |-> position, vel |-> velocity]}

\* HandleBoundary: the (position, velocity) pairs it can leave
HandleBoundary(position, velocity, limit, boundaryType) ==
  IF position >= limit
  THEN IF boundaryType = "Reflective"
       THEN {[pos |-> limit - PushOut, vel |-> v] : v \in Reflect(velocity)}
       ELSE {[pos |-> 0, vel |-> velocity]}
  ELSE IF position <= 0
  THEN IF boundaryType = "Reflective"
       THEN {[pos |-> PushOut, vel |-> v] : v \in Reflect(velocity)}
       ELSE {[pos |-> limit, vel |-> velocity]}
  ELSE {[pos |-> position, vel |-> velocity]}

\* PredictPositions: X += Vx * dt, Y += Vy * dt
PredictPositions(ps, dt) ==
  [i \in ParticleIds |-> [ps[i] EXCEPT !.X = @ + ps[i].Vx * dt, !.Y = @ + ps[i].Vy * dt]]

\* the velocity delta Integrate applies to a particle: (Force / Mass) * dt
VelocityDelta(p, dt) ==
  IF p.Mass > 0
  THEN [X |-> FDiv(p.Force.X * VScale, p.Mass) * dt,
        Y |-> FDiv(p.Force.Y * VScale, p.Mass) * dt]
  ELSE [X |-> p.Force.X * VScale * dt, Y |-> p.Force.Y * VScale * dt]

\* the particle after the velocity and position update, before the boundaries
Advance(p, dt) ==
  LET vx == p.Vx + VelocityDelta(p, dt).X
      vy == p.Vy + VelocityDelta(p, dt).Y
  IN [p EXCEPT !.Vx = vx, !.Vy = vy, !.X = @ + vx * dt, !.Y = @ + vy * dt]

\* the states Integrate can leave one particle in
IntegrateOne(p, s, dt) ==
  LET q == Advance(p, dt)
  IN {[q EXCEPT !.X = bx.pos, !.Vx = bx.vel, !.Y = by.pos, !.Vy = by.vel] :
        bx \in HandleBoundary(q.X, q.Vx, s.Domain.X, s.LeftBoundary),
        by \in HandleBoundary(q.Y, q.Vy, s.Domain.Y, s.TopBoundary)}

RECURSIVE IntegratePrefix(_, _, _, _)
\* the states Integrate can leave the first k particles in, as sequences
IntegratePrefix(ps, s, dt, k) ==
  IF k = 0 THEN {<< >>}
  ELSE {Append(sq, q) : sq \in IntegratePrefix(ps, s, dt, k - 1),
                        q \in IntegrateOne(ps[k - 1], s, dt)}

\* the particle arrays Integrate can leave
Integrate(ps, s, dt) ==
  {[i \in ParticleIds |-> sq[i + 1]] : sq \in IntegratePrefix(ps, s, dt, NumParticles)}

----------------------------------------------------------------------------
(* input: ApplyMouseForceToParticles (the variant RunSimulation calls) *)

\* MouseForce and MouseForceRadius of the parameters, in the units of the model
MouseForce == 4

MouseForceRadius == 2

\* math.Ceil(a / b) for positive a and b
CeilQuotient(a, b) == (a + b - 1) \div b

\* the velocity kick of one particle: outward from the click, falling off
\* linearly to the radius; none beyond the radius or at the click itself
MousePush(p, x_norm, y_norm, mouseForce, forceRadius) ==
  LET dx == p.X - x_norm
      dy == p.Y - y_norm
      distanceSquared == dx * dx + dy * dy
  IN IF distanceSquared > forceRadius * forceRadius THEN p
     ELSE IF distanceSquared < KernelEpsilon THEN p
     ELSE LET distance == Sqrt(distanceSquared)
              forceFactor == FDiv((forceRadius - distance) * mouseForce, forceRadius)
          IN [p EXCEPT !.Vx = @ + FDiv(dx * forceFactor, distance),
                       !.Vy = @ + FDiv(dy * forceFactor, distance)]

\* the particles filed in the cells around the click are pushed, each once
ApplyMouseForceToParticles(ps, g, x_norm, y_norm, mouseForce, forceRadius) ==
  LET cellSize == g.CellSize
      mouseCellX == IntOfQuotient(x_norm, cellSize)
      mouseCellY == IntOfQuotient(y_norm, cellSize)
      checkRadiusCells == CeilQuotient(forceRadius, cellSize)
      keys == {MakeCellIndex(mouseCellX + dx, mouseCellY + dy) :
                 dx \in (-checkRadiusCells)..checkRadiusCells,
                 dy \in (-checkRadiusCells)..checkRadiusCells}
      checkedParticles == UNION {SeqToSet(g.CellMap[k].items) : k \in keys \cap DOMAIN g.CellMap}
  IN [i \in ParticleIds |->
        IF i \in checkedParticles
        THEN MousePush(ps[i], x_norm, y_norm, mouseForce, forceRadius)
        ELSE ps[i]]

----------------------------------------------------------------------------
(* simulation: construction (NewFluidSim, RandomStillInitialCondition) *)

\* the generator rng: a full-period linear congruential sequence; a draw of
\* rng.Float64() is the state r, standing for the fraction r / RngModulus
RngModulus == 64

RngNext(r) == (5 * r + 3) % RngModulus

RECURSIVE RngAt(_, _)
\* the k-th draw of the generator seeded with seed
RngAt(seed, k) == IF k = 0 THEN seed % RngModulus ELSE RngNext(RngAt(seed, k - 1))

\* rng.Float64() * width, for the draw r
Scaled(r, width) == FDiv(r * width, RngModulus)

\* RandomStillInitialCondition for the draws rx, ry, rvx, rvy: a position in
\* [0, domain) and a jitter velocity
RandomStillInitialCondition(domain, rx, ry, rvx, rvy) ==
  [x |-> Scaled(rx, domain.X),
   y |-> Scaled(ry, domain.Y),
   vx |-> Scaled(rvx, 2 * MaxJitterVel + 1) - MaxJitterVel,
   vy |-> Scaled(rvy, 2 * MaxJitterVel + 1) - MaxJitterVel]

\* the draws per particle in NewFluidSim: x, y, vx, vy and the radius
DrawsPerParticle == 5

\* a particle whose radius draw can reach 0: its mass is not always positive
MasslessParticle(i, domain, params, seed) ==
  LET ic == RandomStillInitialCondition(domain,
                                        RngAt(seed, DrawsPerParticle * i + 1),
                                        RngAt(seed, DrawsPerParticle * i + 2),
                                        RngAt(seed, DrawsPerParticle * i + 3),
                                        RngAt(seed, DrawsPerParticle * i + 4))
  IN [X |-> ic.x, Y |-> ic.y, Vx |-> ic.vx, Vy |-> ic.vy,
      Force |-> ZeroVec,
      Density |-> params.Rho0,
      Pressure |-> 0,
      Mass |-> Scaled(RngAt(seed, DrawsPerParticle * i + 5), MaxMass),
      CellX |-> 0, CellY |-> 0,
      NeighborIndices |-> << >>]

\* particle i as NewFluidSim builds it
NewParticle(i, domain, params, seed) ==
  LET ic == RandomStillInitialCondition(domain,
                                        RngAt(seed, DrawsPerParticle * i + 1),
                                        RngAt(seed, DrawsPerParticle * i + 2),
                                        RngAt(seed, DrawsPerParticle * i + 3),
                                        RngAt(seed, DrawsPerParticle * i + 4))
  IN [X |-> ic.x, Y |-> ic.y, Vx |-> ic.vx, Vy |-> ic.vy,
      Force |-> ZeroVec,
      Density |-> params.Rho0,
      Pressure |-> 0,
      \* math.Pi * Radius * Radius, Radius drawn around the base radius
      Mass |-> 1 + Scaled(RngAt(seed, DrawsPerParticle * i + 5), MaxMass),
      CellX |-> 0, CellY |-> 0,
      NeighborIndices |-> << >>]

\* the FluidSim fields NewFluidSim copies from SimParameters
NewFluidSim(domain, params) ==
  [Dt |-> params.Dt,
   Domain |-> domain,
   Rho0 |-> params.Rho0,
   Nu |-> params.Nu,
   SmoothingFactor |-> params.SmoothingFactor,
   DampeningFactor |-> params.DampeningFactor,
   DragEnabled |-> params.DragEnabled,
   AttractionFactor |-> params.AttractionFactor,
   InteractionRadius |-> params.InteractionRadius,
   LeftBoundary |-> "Reflective",
   TopBoundary |-> "Reflective"]

\* GetDefaultSimParameters, in the units of the model
DefaultSimParameters ==
  [InteractionRadius |-> 2,
   SmoothingFactor |-> 10,
   DampeningFactor |-> 2,
   DragEnabled |-> TRUE,
   AttractionFactor |-> -8,
   Rho0 |-> KernelScale,
   Nu |-> 1,
   PressureMultiplier |-> 1,
   Dt |-> 1,
   Gravity |-> 0]

\* the parameter bundles a run is started with: the defaults, and the
\* scenarios of section 8 with all forces but one disabled
GravityOnly ==
  [DefaultSimParameters EXCEPT !.Gravity = -1, !.PressureMultiplier = 0, !.Nu = 0,
                               !.AttractionFactor = 0, !.DragEnabled = FALSE]

AttractionOnly(factor) ==
  [DefaultSimParameters EXCEPT !.Gravity = 0, !.PressureMultiplier = 0, !.Nu = 0,
                               !.AttractionFactor = factor, !.DragEnabled = FALSE]

Scenarios == {DefaultSimParameters, GravityOnly, AttractionOnly(8), AttractionOnly(-8)}

----------------------------------------------------------------------------
(* simulation/density_pressure.go: CalculatePressureStats *)

\* mean and standard deviation of the pressures, the mean from the
\* pressures scaled by 1000 and truncated to int64
CalculatePressureStats(ps) ==
  LET n == NumParticles
      totalSum == SumOver([i \in ParticleIds |-> FDiv(ps[i].Pressure * 1000, KernelScale)],
                          ParticleIds)
      meanPressure == FDiv(totalSum * KernelScale, n * 1000)
      varianceSum == SumOver([i \in ParticleIds |->
                                (ps[i].Pressure - meanPressure) * (ps[i].Pressure - meanPressure)],
                             ParticleIds)
  IN IF n = 0 THEN [mean |-> 0, std |-> 0]
     ELSE [mean |-> meanPressure, std |-> Sqrt(FDiv(varianceSum, n))]

----------------------------------------------------------------------------
(* The simulation run: RunSimulation's loop around FluidSim.Step *)

VARIABLES
  particles,  \* sim.Particles
  grid,       \* sim.Grid
  sim,        \* the scalar fields of FluidSim
  run,        \* RunSimulation's currentGravity and currentPressureMultiplier
  pc,         \* "idle" between Step calls, else the phase Step runs next
  steps,      \* Step calls completed
  tunes,      \* input events handled so far: presses of e / t, mouse clicks
  hist,       \* history: velocities at the start of the Step, the deltas
              \* Integrate applied, and which boundaries were hit
  stats,      \* what the last Step returned
  pf,         \* one parallelFor call: its arguments, locals and position
  workers,    \* the goroutines parallelFor started
  calls,      \* per index: invocations of f begun and ended in this call
  prog,       \* the caller of parallelFor: a single call, or Step's phases
  probe       \* a cell key computation: coordinates, packed key, unpacked pair

simVars == <<particles, grid, sim, run, pc, steps, tunes, hist, stats>>

callVars == <<pf, workers, calls, prog>>

vars == <<particles, grid, sim, run, pc, steps, tunes, hist, stats,
          pf, workers, calls, prog, probe>>

SimDomain == [X |-> DomainSize, Y |-> DomainSize]

Velocities(ps) == [i \in ParticleIds |-> [X |-> ps[i].Vx, Y |-> ps[i].Vy]]

\* the values of the variables a specification does not use
NoCall == [pos |-> "none"]

NoWorkers == << >>

NoCalls == << >>

NoProgram == [kind |-> "none"]

NoProbe == [stage |-> "none"]

SimInit ==
  \E seed \in 0..MaxSeed, params \in Scenarios :
    /\ particles = [i \in ParticleIds |-> NewParticle(i, SimDomain, params, seed)]
    /\ grid = NewGrid(params.InteractionRadius, SimDomain.X, SimDomain.Y)
    /\ sim = NewFluidSim(SimDomain, params)
    /\ run = [currentGravity |-> params.Gravity,
              currentPressureMultiplier |-> params.PressureMultiplier]
    /\ pc = "idle"
    /\ steps = 0
    /\ tunes = 0
    /\ hist = [V0 |-> Velocities([i \in ParticleIds |-> NewParticle(i, SimDomain, params, seed)]),
               dV |-> [i \in ParticleIds |-> ZeroVec],
               hit |-> [i \in ParticleIds |-> [X |-> FALSE, Y |-> FALSE]],
               clicks |-> 0,
               at |-> <<0, 0>>]
    /\ stats = [mean |-> 0, std |-> 0]
    /\ pf = NoCall
    /\ workers = NoWorkers
    /\ calls = NoCalls
    /\ prog = NoProgram
    /\ probe = NoProbe

\* case sdl.K_e: InteractionRadius = math.Max(1.0, InteractionRadius - 1.0)
KeyE ==
  /\ pc = "idle"
  /\ tunes < MaxTunes
  /\ sim' = [sim EXCEPT !.InteractionRadius = Max(1, @ - 1)]
  /\ tunes' = tunes + 1
  /\ UNCHANGED <<particles, grid, run, pc, steps, hist, stats>>
  /\ UNCHANGED <<callVars, probe>>

\* case sdl.K_t: InteractionRadius = math.Min(50.0, InteractionRadius + 1.0)
KeyT ==
  /\ pc = "idle"
  /\ tunes < MaxTunes
  /\ sim' = [sim EXCEPT !.InteractionRadius = Min(50, @ + 1)]
  /\ tunes' = tunes + 1
  /\ UNCHANGED <<particles, grid, run, pc, steps, hist, stats>>
  /\ UNCHANGED <<callVars, probe>>

\* the click positions, in simulation coordinates: a corner and the centre
MousePoints == {<<0, 0>>, <<DomainSize \div 2, DomainSize \div 2>>}

\* case *sdl.MouseButtonEvent: a left click between two steps
MouseClick ==
  /\ pc = "idle"
  /\ tunes < MaxTunes
  /\ \E m \in MousePoints :
       /\ particles' = ApplyMouseForceToParticles(particles, grid, m[1], m[2],
                                                  MouseForce, MouseForceRadius)
       /\ hist' = [hist EXCEPT !.clicks = @ + 1, !.at = m]
  /\ tunes' = tunes + 1
  /\ UNCHANGED <<grid, sim, run, pc, steps, stats>>
  /\ UNCHANGED <<callVars, probe>>

\* Step, phase 0: the forces are reset
StepResetForces ==
  /\ pc = "idle"
  /\ steps < MaxSteps
  /\ particles' = [i \in ParticleIds |-> [particles[i] EXCEPT !.Force = ZeroVec]]
  /\ hist' = [hist EXCEPT !.V0 = Velocities(particles)]
  /\ pc' = "predict"
  /\ UNCHANGED <<grid, sim, run, steps, tunes, stats>>
  /\ UNCHANGED <<callVars, probe>>

StepPredictPositions ==
  /\ pc = "predict"
  /\ particles' = PredictPositions(particles, sim.Dt)
  /\ pc' = "grid"
  /\ UNCHANGED <<grid, sim, run, steps, tunes, hist, stats>>
  /\ UNCHANGED <<callVars, probe>>

StepGridUpdate ==
  /\ pc = "grid"
  /\ grid' = Update(grid, particles).grid
  /\ particles' = Update(grid, particles).particles
  /\ pc' = "neighbors"
  /\ UNCHANGED <<sim, run, steps, tunes, hist, stats>>
  /\ UNCHANGED <<callVars, probe>>

StepFindNeighbors ==
  /\ pc = "neighbors"
  /\ particles' = FindNeighbors(particles, grid, sim)
  /\ pc' = "density"
  /\ UNCHANGED <<grid, sim, run, steps, tunes, hist, stats>>
  /\ UNCHANGED <<callVars, probe>>

StepUpdateDensities ==
  /\ pc = "density"
  /\ particles' = UpdateDensities(particles, sim)
  /\ pc' = "pressure"
  /\ UNCHANGED <<grid, sim, run, steps, tunes, hist, stats>>
  /\ UNCHANGED <<callVars, probe>>

StepUpdatePressure ==
  /\ pc = "pressure"
  /\ particles' = UpdatePressure(particles, sim, run.currentPressureMultiplier)
  /\ pc' = "gravity"
  /\ UNCHANGED <<grid, sim, run, steps, tunes, hist, stats>>
  /\ UNCHANGED <<callVars, probe>>

StepApplyGravityForces ==
  /\ pc = "gravity"
  /\ particles' = ApplyGravityForces(particles, run.currentGravity)
  /\ pc' = "standard"
  /\ UNCHANGED <<grid, sim, run, steps, tunes, hist, stats>>
  /\ UNCHANGED <<callVars, probe>>

StepCalculateStandardForces ==
  /\ pc = "standard"
  /\ particles' = CalculateStandardForces(particles, sim, run.currentPressureMultiplier)
  /\ pc' = "attraction"
  /\ UNCHANGED <<grid, sim, run, steps, tunes, hist, stats>>
  /\ UNCHANGED <<callVars, probe>>

StepCalculateAttractionForces ==
  /\ pc = "attraction"
  /\ particles' = CalculateAttractionForces(particles, grid, sim)
  /\ pc' = "drag"
  /\ UNCHANGED <<grid, sim, run, steps, tunes, hist, stats>>
  /\ UNCHANGED <<callVars, probe>>

StepApplyDrag ==
  /\ pc = "drag"
  /\ particles' = ApplyDrag(particles, sim, sim.Dt)
  /\ pc' = "integrate"
  /\ UNCHANGED <<grid, sim, run, steps, tunes, hist, stats>>
  /\ UNCHANGED <<callVars, probe>>

StepIntegrate ==
  /\ pc = "integrate"
  /\ \E qs \in Integrate(particles, sim, sim.Dt) : particles' = qs
  /\ hist' = [hist EXCEPT
                !.dV = [i \in ParticleIds |-> VelocityDelta(particles[i], sim.Dt)],
                !.hit = [i \in ParticleIds |->
                           LET q == Advance(particles[i], sim.Dt)
                           IN [X |-> q.X >= sim.Domain.X \/ q.X <= 0,
                               Y |-> q.Y >= sim.Domain.Y \/ q.Y <= 0]]]
  /\ pc' = "stats"
  /\ UNCHANGED <<grid, sim, run, steps, tunes, stats>>
  /\ UNCHANGED <<callVars, probe>>

\* the last phase: Step returns the statistics
StepCalculatePressureStats ==
  /\ pc = "stats"
  /\ stats' = CalculatePressureStats(particles)
  /\ pc' = "idle"
  /\ steps' = steps + 1
  /\ UNCHANGED <<particles, grid, sim, run, tunes, hist>>
  /\ UNCHANGED <<callVars, probe>>

SimNext ==
  \/ KeyE
  \/ KeyT
  \/ MouseClick
  \/ StepResetForces
  \/ StepPredictPositions
  \/ StepGridUpdate
  \/ StepFindNeighbors
  \/ StepUpdateDensities
  \/ StepUpdatePressure
  \/ StepApplyGravityForces
  \/ StepCalculateStandardForces
  \/ StepCalculateAttractionForces
  \/ StepApplyDrag
  \/ StepIntegrate
  \/ StepCalculatePressureStats

Spec == SimInit /\ [][SimNext]_vars

----------------------------------------------------------------------------
(* Properties of the positions during a run *)

InsideDomain(p, domain) ==
  /\ 0 <= p.X /\ p.X <= domain.X
  /\ 0 <= p.Y /\ p.Y <= domain.Y

----------------------------------------------------------------------------
(* Properties of the grid during a run *)

\* the phases of Step between Grid.Update and Integrate: positions are the
\* ones Update saw
AfterGridUpdate ==
  pc \in {"neighbors", "density", "pressure", "gravity", "standard",
          "attraction", "drag", "integrate"}

\* the phases of Step between FindNeighbors and Integrate
AfterFindNeighbors ==
  pc \in {"density", "pressure", "gravity", "standard", "attraction", "drag", "integrate"}

\* the key Update files a particle under: MakeCellIndex(int(X / CellSize), int(Y / CellSize))
CellKeyOf(p, cellSize) ==
  MakeCellIndex(CellCoord(p.X, cellSize), CellCoord(p.Y, cellSize))

Occurrences(items, idx) == Cardinality({k \in 1..Len(items) : items[k] = idx})

\* how often idx appears in all the cell lists together
TotalOccurrences(cellMap, idx) ==
  SumOver([k \in DOMAIN cellMap |-> Occurrences(cellMap[k].items, idx)], DOMAIN cellMap)

\* C1: after Grid.Update every particle index is in exactly one cell list, the
\* one keyed by the cell of its current position, and its cached CellX/CellY
\* are that cell; also when earlier Updates filed other positions
C1_UpdatePartition ==
  AfterGridUpdate =>
    \A i \in ParticleIds :
      LET key == CellKeyOf(particles[i], grid.CellSize)
      IN /\ key \in DOMAIN grid.CellMap
         /\ Occurrences(grid.CellMap[key].items, i) = 1
         /\ TotalOccurrences(grid.CellMap, i) = 1
         /\ particles[i].CellX = CellCoord(particles[i].X, grid.CellSize)
         /\ particles[i].CellY = CellCoord(particles[i].Y, grid.CellSize)

\* a second Update has run, and a cell that an earlier Update filled is now empty
C1_Witness ==
  /\ pc = "neighbors"
  /\ steps >= 1
  /\ \E k \in DOMAIN grid.CellMap : grid.CellMap[k].items = << >>
  /\ \A i \in ParticleIds : TotalOccurrences(grid.CellMap, i) = 1

\* the largest interaction radius of a placement
MaxRadius == 2

\* how far below 0 a placed coordinate can lie
GridReach == 2

\* the coordinates of a placement: from below 0 to beyond the domain
GridBox == (-GridReach)..(DomainSize + 1)

\* a placement: the first two particles anywhere, the others on the diagonal
Placement(free, diag) ==
  [i \in ParticleIds |-> IF i < 2 THEN free[i] ELSE <<diag[i], diag[i]>>]

\* a simulation whose predictor phase has left the particles at any placement,
\* with any interaction radius, about to rebuild the grid
GridInit ==
  /\ \E h \in 1..MaxRadius,
        free \in [{i \in ParticleIds : i < 2} -> GridBox \X GridBox],
        diag \in [{i \in ParticleIds : i >= 2} -> GridBox] :
       /\ particles = [i \in ParticleIds |->
                         [NewParticle(i, SimDomain, DefaultSimParameters, 0)
                            EXCEPT !.X = Placement(free, diag)[i][1],
                                   !.Y = Placement(free, diag)[i][2]]]
       /\ grid = NewGrid(h, SimDomain.X, SimDomain.Y)
       /\ sim = NewFluidSim(SimDomain, [DefaultSimParameters EXCEPT !.InteractionRadius = h])
  /\ run = [currentGravity |-> DefaultSimParameters.Gravity,
            currentPressureMultiplier |-> DefaultSimParameters.PressureMultiplier]
  /\ pc = "grid"
  /\ steps = 0
  /\ tunes = 0
  /\ hist = << >>
  /\ stats = [mean |-> 0, std |-> 0]
  /\ pf = NoCall
  /\ workers = NoWorkers
  /\ calls = NoCalls
  /\ prog = NoProgram
  /\ probe = NoProbe

GridNext ==
  \/ StepGridUpdate
  \/ StepFindNeighbors

GridSpec == GridInit /\ [][GridNext]_vars

\* the other particles within distance h of particle i, by a scan of all pairs
BruteForceNeighbors(ps, i, h) ==
  {j \in ParticleIds \ {i} : DistSq(ps[i], ps[j]) < h * h}

\* C2: when the interaction radius is the grid cell size, the list
\* FindNeighbors builds for a particle holds exactly the other particles
\* closer than the radius, each once, wherever the positions lie
C2_NeighborsMatchBruteForce ==
  (AfterFindNeighbors /\ grid.CellSize = sim.InteractionRadius) =>
    \A i \in ParticleIds :
      /\ SeqToSet(particles[i].NeighborIndices)
           = BruteForceNeighbors(particles, i, sim.InteractionRadius)
      /\ Len(particles[i].NeighborIndices)
           = Cardinality(BruteForceNeighbors(particles, i, sim.InteractionRadius))

\* a particle at a negative coordinate has a neighbour filed in another cell,
\* and a particle lies beyond the domain
C2_Witness ==
  /\ pc = "density"
  /\ grid.CellSize = sim.InteractionRadius
  /\ \E j \in ParticleIds : particles[j].X > sim.Domain.X
  /\ \E i \in ParticleIds :
       /\ particles[i].X < 0 \/ particles[i].Y < 0
       /\ \E k \in 1..Len(particles[i].NeighborIndices) :
            CellKeyOf(particles[particles[i].NeighborIndices[k]], grid.CellSize)
              # CellKeyOf(particles[i], grid.CellSize)

\* C3: in every reachable state, also after the keys e / t, the grid's cell
\* size is the current interaction radius
C3_CellSizeIsRadius == grid.CellSize = sim.InteractionRadius

\* C5: Update files every particle under floor(x / cellSize), floor(y / cellSize),
\* also at negative positions
C5_FiledUnderFloor ==
  AfterGridUpdate =>
    \A i \in ParticleIds :
      /\ particles[i].CellX = FloorQuotient(particles[i].X, grid.CellSize)
      /\ particles[i].CellY = FloorQuotient(particles[i].Y, grid.CellSize)

----------------------------------------------------------------------------
(* Properties of the forces during a run *)

\* only the pairwise attraction force is active
AttractionOnlyRun ==
  /\ run.currentGravity = 0
  /\ run.currentPressureMultiplier = 0
  /\ sim.Nu = 0
  /\ ~sim.DragEnabled
  /\ sim.AttractionFactor # 0

\* only gravity is active
GravityOnlyRun ==
  /\ run.currentGravity # 0
  /\ run.currentPressureMultiplier = 0
  /\ sim.Nu = 0
  /\ ~sim.DragEnabled
  /\ sim.AttractionFactor = 0

C10_GravityVelocity ==
  (GravityOnlyRun /\ pc = "stats" /\ steps = 0) =>
    \A i \in ParticleIds : particles[i].Vy = run.currentGravity * VScale * sim.Dt

----------------------------------------------------------------------------
(* Cell keys: MakeCellIndex followed by GetCoordinates *)

\* the simulation variables in a specification that does not run Step
SimUnused ==
  /\ particles = << >>
  /\ grid = << >>
  /\ sim = << >>
  /\ run = << >>
  /\ pc = "none"
  /\ steps = 0
  /\ tunes = 0
  /\ hist = << >>
  /\ stats = << >>

\* the signed cell coordinates of the model's word size
SignedCoords == (-(KeyModulus \div 2))..(KeyModulus \div 2 - 1)

KeyInit ==
  /\ SimUnused
  /\ pf = NoCall
  /\ workers = NoWorkers
  /\ calls = NoCalls
  /\ prog = NoProgram
  /\ \E cellX \in SignedCoords, cellY \in SignedCoords :
       probe = [stage |-> "input", cellX |-> cellX, cellY |-> cellY,
                key |-> 0, coords |-> <<0, 0>>]

\* ci := MakeCellIndex(cellX, cellY)
KeyPack ==
  /\ probe.stage = "input"
  /\ probe' = [probe EXCEPT !.stage = "packed",
                            !.key = MakeCellIndex(probe.cellX, probe.cellY)]
  /\ UNCHANGED <<simVars, callVars>>

\* ci.GetCoordinates()
KeyUnpack ==
  /\ probe.stage = "packed"
  /\ probe' = [probe EXCEPT !.stage = "unpacked", !.coords = GetCoordinates(probe.key)]
  /\ UNCHANGED <<simVars, callVars>>

KeyNext ==
  \/ KeyPack
  \/ KeyUnpack

KeySpec == KeyInit /\ [][KeyNext]_vars

\* C4: for all signed cell coordinates, negative ones included,
\* MakeCellIndex(cellX, cellY).GetCoordinates() is (cellX, cellY)
C4_KeyRoundTrip ==
  probe.stage = "unpacked" => probe.coords = <<probe.cellX, probe.cellY>>

----------------------------------------------------------------------------
(* HandleBoundary on its own: one call on any position and velocity *)

\* the largest limit of a call
MaxLimit == 4

\* how far beyond the edges a position can lie
MaxBeyond == 2

\* the largest speed of a call, in units of VelUnit
MaxSpeed == 3

\* the sub-units of a velocity: dampening and jitter are exact on multiples
VelUnit == 1000

BoundaryTypes == {"Reflective", "Periodic"}

BoundaryInit ==
  /\ SimUnused
  /\ pf = NoCall
  /\ workers = NoWorkers
  /\ calls = NoCalls
  /\ prog = NoProgram
  /\ \E limit \in 2..MaxLimit, boundaryType \in BoundaryTypes,
        k \in (-MaxSpeed)..MaxSpeed :
       \E position \in (-MaxBeyond)..(limit + MaxBeyond) :
         probe = [stage |-> "call", limit |-> limit, boundaryType |-> boundaryType,
                  position |-> position, velocity |-> k * VelUnit,
                  pos |-> position, vel |-> k * VelUnit]

\* spatial.HandleBoundary(&position, &velocity, limit, boundaryType)
BoundaryResolve ==
  /\ probe.stage = "call"
  /\ \E r \in HandleBoundary(probe.position, probe.velocity, probe.limit, probe.boundaryType) :
       probe' = [probe EXCEPT !.stage = "resolved", !.pos = r.pos, !.vel = r.vel]
  /\ UNCHANGED <<simVars, callVars>>

BoundaryNext == BoundaryResolve

BoundarySpec == BoundaryInit /\ [][BoundaryNext]_vars

\* the velocity is the dampened reverse of v, up to the jitter bound
\* RANDOMIZATION_FACTOR * 0.1 of its magnitude
DampenedReverse(vel, v) ==
  /\ vel * v < 0
  /\ 1000 * Abs(10 * vel + BoundaryDampening * v) <= 10 * JitterPermille * BoundaryDampening * Abs(v)

\* C12: a Reflective call on a position >= limit with outward velocity
\* leaves the position at most limit - pushOut and strictly inside the
\* bounds, and the velocity reversed and scaled by the dampening factor up
\* to the jitter; at the lower bound the position becomes the small
\* positive pushOut
C12_ReflectiveResolution ==
  (probe.stage = "resolved" /\ probe.boundaryType = "Reflective") =>
    /\ (probe.position >= probe.limit /\ probe.velocity > 0) =>
         /\ probe.pos <= probe.limit - PushOut
         /\ probe.pos > 0
         /\ DampenedReverse(probe.vel, probe.velocity)
    /\ (probe.position <= 0 /\ probe.velocity < 0) =>
         /\ probe.pos = PushOut
         /\ probe.pos < probe.limit
         /\ DampenedReverse(probe.vel, probe.velocity)

\* a particle beyond the upper limit moving outward was reflected with jitter
C12_Witness ==
  /\ probe.stage = "resolved"
  /\ probe.boundaryType = "Reflective"
  /\ probe.position > probe.limit
  /\ probe.velocity > 0
  /\ probe.pos = probe.limit - PushOut
  /\ 10 * probe.vel # -BoundaryDampening * probe.velocity

\* C13: a Periodic call moves a position at or beyond one edge to the
\* opposite edge and keeps the velocity; a position strictly inside
\* (0, limit) keeps position and velocity under either kind
C13_PeriodicResolution ==
  probe.stage = "resolved" =>
    /\ (probe.boundaryType = "Periodic" /\ probe.position >= probe.limit) =>
         (probe.pos = 0 /\ probe.vel = probe.velocity)
    /\ (probe.boundaryType = "Periodic" /\ probe.position <= 0) =>
         (probe.pos = probe.limit /\ probe.vel = probe.velocity)
    /\ (0 < probe.position /\ probe.position < probe.limit) =>
         (probe.pos = probe.position /\ probe.vel = probe.velocity)

\* a moving particle beyond the upper limit was wrapped to the lower edge
C13_Witness ==
  /\ probe.stage = "resolved"
  /\ probe.boundaryType = "Periodic"
  /\ probe.position > probe.limit
  /\ probe.velocity # 0
  /\ probe.pos = 0

----------------------------------------------------------------------------
(* simulation: parallelFor, in its chunked and its channel-fed variant *)

\* the largest start of a call
MaxStart == 1

\* the largest end - start of a call
MaxRange == 9

\* the largest end - start of a call of the channel-fed variant
MaxFed == 4

\* the largest configured NumWorkers
MaxWorkers == 3

\* the largest end - start of a call whose workers run their chunk in one step
MaxLongRange == 26

\* the largest configured NumWorkers of such a call
MaxLongWorkers == 6

\* the largest configured MinimumBatchSize
MaxBatch == 2

\* numWorkers := 4 of the channel-fed variant
ChannelWorkers == 4

\* "Ensure at least 4 items per worker"
MinItemsPerWorker == 4

WorkerIds == 0..(Max(Max(MaxWorkers, MaxLongWorkers), ChannelWorkers) - 1)

IndexRange == 0..(MaxStart + Max(MaxRange, MaxLongRange))

Variants == {"chunked", "channel"}

ParallelConfigs ==
  [NumWorkers : 1..MaxWorkers, MinimumBatchSize : 1..MaxBatch]

LongConfigs ==
  [NumWorkers : 1..MaxLongWorkers, MinimumBatchSize : 1..MaxBatch]

\* numWorkers after the two adjustments of the chunked variant, for n items
PlannedWorkers(n, cfg) ==
  LET limited == IF n \div cfg.NumWorkers < MinItemsPerWorker
                 THEN (n + MinItemsPerWorker - 1) \div MinItemsPerWorker
                 ELSE cfg.NumWorkers
  IN IF limited > n THEN n ELSE limited

\* an itemsPerWorker rounded down: the last items belong to no chunk
ItemsPerWorkerFloor(n, numWorkers) == n \div numWorkers

\* itemsPerWorker := (end - start + numWorkers - 1) / numWorkers
ItemsPerWorker(n, numWorkers) == (n + numWorkers - 1) \div numWorkers

ChunkStart(start, workerIdx, itemsPerWorker) == start + workerIdx * itemsPerWorker

ChunkEnd(start, end, workerIdx, itemsPerWorker) ==
  Min(ChunkStart(start, workerIdx, itemsPerWorker) + itemsPerWorker, end)

\* a call of parallelFor(start, end, f) at position pos, made for phase
MkCall(variant, cfg, phase, start, end, pos) ==
  [variant |-> variant, cfg |-> cfg, phase |-> phase, start |-> start, end |-> end,
   pos |-> pos, i |-> start, numWorkers |-> 0, itemsPerWorker |-> 0, spawned |-> 0,
   wg |-> 0, tasks |-> << >>, closed |-> FALSE,
   \* "task": every f(i) is a step of its own; "chunk": a worker's whole
   \* chunk is one step
   grain |-> "task"]

IdleWorkers == [w \in WorkerIds |-> [st |-> "none", i |-> 0, chunkEnd |-> 0, cur |-> 0]]

NoInvocations(phases) ==
  [k \in 1..phases |-> [idx \in IndexRange |-> [begun |-> 0, ended |-> 0]]]

\* f(idx) is entered
Begin(idx) == [calls EXCEPT ![pf.phase][idx].begun = @ + 1]

\* f(idx) returns
End(idx) == [calls EXCEPT ![pf.phase][idx].ended = @ + 1]

\* the chunked variant runs serially for a small batch or a single worker
RunsSerially ==
  /\ pf.variant = "chunked"
  /\ \/ pf.end - pf.start <= pf.cfg.MinimumBatchSize
     \/ PlannedWorkers(pf.end - pf.start, pf.cfg) <= 1

\* entry of parallelFor: the serial loop, or the set-up of the workers
PFEnter ==
  /\ pf.pos = "entry"
  /\ pf' = IF RunsSerially
           THEN [pf EXCEPT !.pos = "serial", !.i = pf.start]
           ELSE IF pf.variant = "chunked"
           THEN [pf EXCEPT !.pos = "spawn",
                           !.numWorkers = PlannedWorkers(pf.end - pf.start, pf.cfg),
                           !.itemsPerWorker =
                              ItemsPerWorker(pf.end - pf.start,
                                             PlannedWorkers(pf.end - pf.start, pf.cfg))]
           ELSE [pf EXCEPT !.pos = "spawn", !.numWorkers = ChannelWorkers]
  /\ UNCHANGED <<workers, calls, prog, simVars, probe>>

\* the serial loop enters f(i)
SerialBegin ==
  /\ pf.pos = "serial"
  /\ pf.i < pf.end
  /\ pf' = [pf EXCEPT !.pos = "serialF"]
  /\ calls' = Begin(pf.i)
  /\ UNCHANGED <<workers, prog, simVars, probe>>

SerialEnd ==
  /\ pf.pos = "serialF"
  /\ pf' = [pf EXCEPT !.pos = "serial", !.i = @ + 1]
  /\ calls' = End(pf.i)
  /\ UNCHANGED <<workers, prog, simVars, probe>>

\* the serial loop is over: return
SerialReturn ==
  /\ pf.pos = "serial"
  /\ pf.i >= pf.end
  /\ pf' = [pf EXCEPT !.pos = "returned"]
  /\ UNCHANGED <<workers, calls, prog, simVars, probe>>

\* wg.Add(1); go func(workerIdx): after the last one the caller feeds or waits
Spawn ==
  /\ pf.pos = "spawn"
  /\ pf.spawned < pf.numWorkers
  /\ workers' = [workers EXCEPT ![pf.spawned] =
                   [st |-> "loop",
                    i |-> ChunkStart(pf.start, pf.spawned, pf.itemsPerWorker),
                    chunkEnd |-> ChunkEnd(pf.start, pf.end, pf.spawned, pf.itemsPerWorker),
                    cur |-> 0]]
  /\ pf' = [pf EXCEPT !.spawned = @ + 1,
                      !.wg = @ + 1,
                      !.i = pf.start,
                      !.pos = IF pf.spawned + 1 < pf.numWorkers THEN "spawn"
                              ELSE IF pf.variant = "chunked" THEN "wait" ELSE "feed"]
  /\ UNCHANGED <<calls, prog, simVars, probe>>

\* tasks <- i: the channel holds end - start items, the send never blocks
Feed ==
  /\ pf.pos = "feed"
  /\ pf.i < pf.end
  /\ pf' = [pf EXCEPT !.tasks = Append(@, pf.i), !.i = @ + 1]
  /\ UNCHANGED <<workers, calls, prog, simVars, probe>>

\* close(tasks)
CloseTasks ==
  /\ pf.pos = "feed"
  /\ pf.i >= pf.end
  /\ pf' = [pf EXCEPT !.closed = TRUE, !.pos = "wait"]
  /\ UNCHANGED <<workers, calls, prog, simVars, probe>>

\* a worker enters f: for the next index of its chunk, or for a received one
WorkerBegin(w) ==
  /\ workers[w].st = "loop"
  /\ pf.grain = "task"
  /\ IF pf.variant = "chunked"
     THEN /\ workers[w].i < workers[w].chunkEnd
          /\ workers' = [workers EXCEPT ![w].st = "inF", ![w].cur = workers[w].i]
          /\ calls' = Begin(workers[w].i)
          /\ pf' = pf
     ELSE /\ pf.tasks # << >>
          /\ workers' = [workers EXCEPT ![w].st = "inF", ![w].cur = Head(pf.tasks)]
          /\ calls' = Begin(Head(pf.tasks))
          /\ pf' = [pf EXCEPT !.tasks = Tail(@)]
  /\ UNCHANGED <<prog, simVars, probe>>

WorkerEnd(w) ==
  /\ workers[w].st = "inF"
  /\ workers' = [workers EXCEPT ![w].st = "loop",
                                 ![w].i = IF pf.variant = "chunked" THEN @ + 1 ELSE @,
                                 ![w].cur = 0]
  /\ calls' = End(workers[w].cur)
  /\ UNCHANGED <<pf, prog, simVars, probe>>

\* a worker runs f for every index of its chunk without being interrupted
WorkerRunChunk(w) ==
  /\ workers[w].st = "loop"
  /\ pf.grain = "chunk"
  /\ workers[w].i < workers[w].chunkEnd
  /\ workers' = [workers EXCEPT ![w].i = workers[w].chunkEnd]
  /\ calls' = [calls EXCEPT ![pf.phase] =
                 [idx \in IndexRange |->
                    IF workers[w].i <= idx /\ idx < workers[w].chunkEnd
                    THEN [begun |-> @[idx].begun + 1, ended |-> @[idx].ended + 1]
                    ELSE @[idx]]]
  /\ UNCHANGED <<pf, prog, simVars, probe>>

\* the worker's loop is over (chunk done, or channel closed and drained): wg.Done()
WorkerDone(w) ==
  /\ workers[w].st = "loop"
  /\ IF pf.variant = "chunked"
     THEN workers[w].i >= workers[w].chunkEnd
     ELSE pf.tasks = << >> /\ pf.closed
  /\ workers' = [workers EXCEPT ![w].st = "done"]
  /\ pf' = [pf EXCEPT !.wg = @ - 1]
  /\ UNCHANGED <<calls, prog, simVars, probe>>

\* wg.Wait() returns
WaitReturn ==
  /\ pf.pos = "wait"
  /\ pf.wg = 0
  /\ pf' = [pf EXCEPT !.pos = "returned"]
  /\ UNCHANGED <<workers, calls, prog, simVars, probe>>

PFNext ==
  \/ PFEnter
  \/ SerialBegin
  \/ SerialEnd
  \/ SerialReturn
  \/ Spawn
  \/ Feed
  \/ CloseTasks
  \/ \E w \in WorkerIds : WorkerBegin(w)
  \/ \E w \in WorkerIds : WorkerEnd(w)
  \/ \E w \in WorkerIds : WorkerRunChunk(w)
  \/ \E w \in WorkerIds : WorkerDone(w)
  \/ WaitReturn

\* one call parallelFor(start, end, f) with start <= end
PFInit ==
  /\ SimUnused
  /\ probe = NoProbe
  /\ prog = [kind |-> "call"]
  /\ workers = IdleWorkers
  /\ calls = NoInvocations(1)
  /\ \/ \E variant \in Variants, cfg \in ParallelConfigs,
           start \in 0..MaxStart, n \in 0..MaxRange :
          /\ variant = "channel" => n <= MaxFed
          /\ pf = MkCall(variant, cfg, 1, start, start + n, "entry")
     \/ \E cfg \in LongConfigs, start \in 0..MaxStart, n \in (MaxRange + 1)..MaxLongRange :
          pf = [MkCall("chunked", cfg, 1, start, start + n, "entry") EXCEPT !.grain = "chunk"]

\* goroutines that can run are run: weak fairness of every step
PFSpec == PFInit /\ [][PFNext]_vars /\ WF_vars(PFNext)

\* f has been entered at most once per index of [start, end), for no other
\* index, and never returned more often than it was entered
InvokedAtMostOnce ==
  \A idx \in IndexRange :
    /\ calls[pf.phase][idx].begun <= (IF pf.start <= idx /\ idx < pf.end THEN 1 ELSE 0)
    /\ calls[pf.phase][idx].ended <= calls[pf.phase][idx].begun

\* when parallelFor has returned, every invocation has been made and has
\* completed, and no goroutine is still in its loop
JoinedOnReturn ==
  pf.pos = "returned" =>
    /\ \A idx \in IndexRange :
         (pf.start <= idx /\ idx < pf.end) =>
           calls[pf.phase][idx].begun = 1 /\ calls[pf.phase][idx].ended = 1
    /\ \A w \in WorkerIds : workers[w].st \in {"none", "done"}

\* C7: parallelFor(start, end, f) calls f exactly once for each index of
\* [start, end) and for no other, returns only after every call has completed,
\* and always returns; an empty range calls nothing
C7_ParallelForContract ==
  /\ [](InvokedAtMostOnce /\ JoinedOnReturn)
  /\ <>(pf.pos = "returned")

\* a chunked call has returned after running workers with chunks of unequal length
C7_Witness ==
  /\ pf.pos = "returned"
  /\ pf.variant = "chunked"
  /\ pf.numWorkers >= 2
  /\ (pf.end - pf.start) % pf.numWorkers # 0
  /\ \A idx \in IndexRange :
       (pf.start <= idx /\ idx < pf.end) => calls[pf.phase][idx].ended = 1

----------------------------------------------------------------------------
(* FluidSim.Step as a sequence of parallelFor calls, task by task *)

\* len(sim.Particles), and the number of cell tasks of the attraction phase
TaskCount == 5

\* the largest runtime.NumCPU(): the length of localAtomics, half that of statsBuffers
MaxCPU == 2

\* a Step with two phases exchanged
ShuffledPhases ==
  << "reset", "grid", "predict", "neighbors", "density", "pressure",
     "gravity", "standard", "attraction", "drag", "integrate",
     "statsSum", "statsVariance" >>

\* the calls Step makes, in the order of its body; CalculatePressureStats
\* makes the last two
StepPhases ==
  << "reset", "predict", "grid", "neighbors", "density", "pressure",
     "gravity", "standard", "attraction", "drag", "integrate",
     "statsSum", "statsVariance" >>

\* Grid.Update runs in the caller, without parallelFor
SerialPhases == {"grid"}

\* the name a phase goes by in the description of Step
PhaseGroup(name) == IF name \in {"statsSum", "statsVariance"} THEN "stats" ELSE name

TaskIds == 0..(TaskCount - 1)

Slots(fields, ids) == fields \X ids

\* the memory one task of a phase reads without writing it
Reads(phase, i, numCPU) ==
  CASE phase = "reset" -> {}
    [] phase = "predict" -> Slots({"Vx", "Vy"}, {i})
    [] phase = "neighbors" -> Slots({"CellX", "CellY"}, {i}) \cup Slots({"X", "Y"}, TaskIds)
    [] phase = "density" -> Slots({"NeighborIndices"}, {i}) \cup Slots({"X", "Y"}, TaskIds)
    [] phase = "pressure" -> Slots({"Density"}, {i})
    [] phase = "gravity" -> Slots({"Mass"}, {i})
    [] phase = "standard" ->
         Slots({"NeighborIndices"}, {i})
           \cup Slots({"X", "Y", "Vx", "Vy", "Density", "Pressure", "Mass"}, TaskIds)
    [] phase = "attraction" -> Slots({"CellMap"}, TaskIds) \cup Slots({"X", "Y", "Mass"}, TaskIds)
    [] phase = "drag" -> {}
    [] phase = "integrate" -> Slots({"Force", "Mass"}, {i})
    [] phase = "statsSum" -> Slots({"Pressure"}, {i})
    [] phase = "statsVariance" -> Slots({"Pressure"}, {i})
    [] OTHER -> {}

\* the memory one task of a phase writes with plain stores
Writes(phase, i, numCPU) ==
  CASE phase = "reset" -> Slots({"Force"}, {i})
    [] phase = "predict" -> Slots({"X", "Y"}, {i})
    [] phase = "neighbors" -> Slots({"NeighborIndices"}, {i})
    [] phase = "density" -> Slots({"Density"}, {i})
    [] phase = "pressure" -> Slots({"Pressure"}, {i})
    [] phase = "gravity" -> Slots({"Force"}, {i})
    [] phase = "standard" -> Slots({"Force"}, {i})
    [] phase = "attraction" -> Slots({"taskAccumulators"}, {i})
    [] phase = "drag" -> Slots({"Vx", "Vy"}, {i})
    [] phase = "integrate" -> Slots({"Vx", "Vy", "X", "Y"}, {i})
    [] phase = "statsSum" -> {}
    \* sim.statsBuffers[i % (len(sim.statsBuffers) / 2)] += diff * diff
    [] phase = "statsVariance" -> Slots({"statsBuffers"}, {i % ((2 * numCPU) \div 2)})
    [] OTHER -> {}

\* the memory one task of a phase updates with atomic operations only:
\* atomic.AddInt64(&sim.localAtomics[i % len(sim.localAtomics)], ...)
AtomicWrites(phase, i, numCPU) ==
  IF phase = "statsSum" THEN Slots({"localAtomics"}, {i % numCPU}) ELSE {}

\* two tasks of a phase conflict: one stores to a slot the other reads or writes
Conflict(phase, i, j, numCPU) ==
  \/ Writes(phase, i, numCPU)
       \cap (Writes(phase, j, numCPU) \cup Reads(phase, j, numCPU)
               \cup AtomicWrites(phase, j, numCPU)) # {}
  \/ Writes(phase, j, numCPU)
       \cap (Reads(phase, i, numCPU) \cup AtomicWrites(phase, i, numCPU)) # {}

\* the tasks a phase has
TasksOf(name) == IF name \in SerialPhases THEN {0} ELSE TaskIds

\* Step reaches its next parallelFor call
StepCallPhase ==
  /\ prog.kind = "step"
  /\ pf.pos \in {"none", "returned"}
  /\ prog.phase < Len(StepPhases)
  /\ StepPhases[prog.phase + 1] \notin SerialPhases
  /\ prog' = [prog EXCEPT
                !.phase = @ + 1,
                !.log = IF @ # << >> /\ @[Len(@)] = PhaseGroup(StepPhases[prog.phase + 1])
                        THEN @ ELSE Append(@, PhaseGroup(StepPhases[prog.phase + 1]))]
  /\ pf' = MkCall(pf.variant, pf.cfg, prog.phase + 1, 0, TaskCount, "entry")
  /\ workers' = IdleWorkers
  /\ UNCHANGED <<calls, simVars, probe>>

\* Step runs sim.Grid.Update(sim.Particles) itself
StepRunGridUpdate ==
  /\ prog.kind = "step"
  /\ pf.pos \in {"none", "returned"}
  /\ prog.phase < Len(StepPhases)
  /\ StepPhases[prog.phase + 1] \in SerialPhases
  /\ prog' = [prog EXCEPT !.phase = @ + 1,
                          !.log = Append(@, PhaseGroup(StepPhases[prog.phase + 1]))]
  /\ pf' = MkCall(pf.variant, pf.cfg, prog.phase + 1, 0, 1, "returned")
  /\ workers' = IdleWorkers
  /\ calls' = [calls EXCEPT ![prog.phase + 1][0] = [begun |-> 1, ended |-> 1]]
  /\ UNCHANGED <<simVars, probe>>

\* return meanPressure, stdPressure
StepReturnStats ==
  /\ prog.kind = "step"
  /\ pf.pos = "returned"
  /\ prog.phase = Len(StepPhases)
  /\ ~prog.returned
  /\ prog' = [prog EXCEPT !.returned = TRUE]
  /\ UNCHANGED <<pf, workers, calls, simVars, probe>>

TaskNext ==
  \/ StepCallPhase
  \/ StepRunGridUpdate
  \/ StepReturnStats
  \/ PFEnter
  \/ SerialBegin
  \/ SerialEnd
  \/ SerialReturn
  \/ Spawn
  \/ \E w \in WorkerIds : WorkerBegin(w)
  \/ \E w \in WorkerIds : WorkerEnd(w)
  \/ \E w \in WorkerIds : WorkerDone(w)
  \/ WaitReturn

\* one call of Step, with the chunked parallelFor of the same package
TaskInit ==
  /\ SimUnused
  /\ probe = NoProbe
  /\ workers = IdleWorkers
  /\ calls = NoInvocations(Len(StepPhases))
  /\ \E cfg \in ParallelConfigs : pf = MkCall("chunked", cfg, 0, 0, 0, "none")
  /\ \E numCPU \in 1..MaxCPU :
       prog = [kind |-> "step", phase |-> 0, numCPU |-> numCPU,
               log |-> << >>, returned |-> FALSE]

TaskSpec == TaskInit /\ [][TaskNext]_vars /\ WF_vars(TaskNext)

\* the tasks that are inside f at the same time
RunningTasks == {w \in WorkerIds : workers[w].st = "inF"}

\* C6: in every parallel phase of Step, no two tasks running at the same time
\* store to a slot the other one reads or writes
C6_NoConflictingAccess ==
  \A w1 \in RunningTasks, w2 \in RunningTasks :
    w1 # w2 =>
      ~Conflict(StepPhases[pf.phase], workers[w1].cur, workers[w2].cur, prog.numCPU)

\* the order of the phases as Step is described
ClaimedOrder ==
  << "reset", "predict", "grid", "neighbors", "density", "pressure",
     "gravity", "standard", "attraction", "drag", "integrate", "stats" >>

\* the phases entered so far are the first ones of the described order
PhaseOrderKept ==
  /\ Len(prog.log) <= Len(ClaimedOrder)
  /\ \A k \in 1..Len(prog.log) : prog.log[k] = ClaimedOrder[k]

\* a task of a call has begun only if every task of the call before has ended
PhaseBarrier ==
  \A k \in 2..Len(StepPhases) :
    (\E idx \in IndexRange : calls[k][idx].begun > 0) =>
      \A idx \in TasksOf(StepPhases[k - 1]) : calls[k - 1][idx].ended = 1

\* when Step has returned every task of every phase has run to its end
AllPhasesDone ==
  prog.returned =>
    /\ prog.log = ClaimedOrder
    /\ \A k \in 1..Len(StepPhases) :
         \A idx \in TasksOf(StepPhases[k]) : calls[k][idx].ended = 1

\* C8: the phases of a Step run in the described order, no task of a phase
\* starts before every task of the preceding phase has finished, and Step
\* always returns
C8_PhasesInOrder ==
  /\ [](PhaseOrderKept /\ PhaseBarrier /\ AllPhasesDone)
  /\ <>(prog.kind = "step" /\ prog.returned)

\* Step has returned after phases whose tasks ran on two workers
C8_Witness ==
  /\ prog.kind = "step"
  /\ prog.returned
  /\ pf.numWorkers >= 2
  /\ \A w \in 0..1 : workers[w].st = "done"

----------------------------------------------------------------------------
(* The density, pressure and integration passes, run task by task by one  *)
(* worker and by several workers on the same particle array               *)

\* the particles of the array: enough for parallelFor to start two workers
PassCount == 5

\* the NumWorkers of the second run
PassWorkers == 2

PassIds == 0..(PassCount - 1)

PassPhases == <<"density", "pressure", "integrate">>

\* a particle of the array: on the middle line, every other particle in
\* its neighbour list
PassParticle(i, x, vx) ==
  [X |-> x, Y |-> DomainSize \div 2, Vx |-> vx, Vy |-> 0,
   Force |-> ZeroVec,
   Density |-> DefaultSimParameters.Rho0,
   Pressure |-> 0,
   Mass |-> 1,
   CellX |-> 0, CellY |-> 0,
   NeighborIndices |-> [k \in 1..(PassCount - 1) |-> IF k <= i THEN k - 1 ELSE k]]

\* the arrays: the first particle and one of the second chunk near an
\* edge, still or moving; the others in the middle, still
PassInputs ==
  {[i \in PassIds |->
      IF i = 0 THEN PassParticle(i, a[1], a[2] * VelUnit)
      ELSE IF i = PassCount - 2 THEN PassParticle(i, b[1], b[2] * VelUnit)
      ELSE PassParticle(i, DomainSize \div 2, 0)] :
     a \in {1, DomainSize - 1} \X {-1, 0, 1},
     b \in {1, DomainSize - 1} \X {-1, 0, 1}}

\* the goroutine of parallelFor(0, PassCount, f) that runs f(i): the
\* caller's (0) when the call runs serially
WorkerOf(i, cfg) ==
  IF PassCount <= cfg.MinimumBatchSize \/ PlannedWorkers(PassCount, cfg) <= 1 THEN 0
  ELSE i \div ItemsPerWorker(PassCount, PlannedWorkers(PassCount, cfg))

\* rand.Float64() * 2 - 1.0 for the generator state r, as one of JitterDraws
DrawOf(r) == (r % 3) - 1

\* whether HandleBoundary calls RandomJitter
Reflects(position, limit, boundaryType) ==
  boundaryType = "Reflective" /\ (position >= limit \/ position <= 0)

\* HandleBoundary when RandomJitter draws d
BoundaryWith(position, velocity, limit, boundaryType, d) ==
  CHOOSE r \in HandleBoundary(position, velocity, limit, boundaryType) :
    Reflects(position, limit, boundaryType) =>
      LET v == FDiv(velocity * (-BoundaryDampening), 10)
      IN r.vel = v + FDiv(d * Abs(v) * JitterPermille, 1000)

\* f(i) of the Integrate pass with the shared generator in state r: the
\* particle and the generator it leaves
IntegrateTask(p, s, dt, r) ==
  LET q == Advance(p, dt)
      bx == BoundaryWith(q.X, q.Vx, s.Domain.X, s.LeftBoundary, DrawOf(r))
      r1 == IF Reflects(q.X, s.Domain.X, s.LeftBoundary) THEN RngNext(r) ELSE r
      by == BoundaryWith(q.Y, q.Vy, s.Domain.Y, s.TopBoundary, DrawOf(r1))
      r2 == IF Reflects(q.Y, s.Domain.Y, s.TopBoundary) THEN RngNext(r1) ELSE r1
  IN [p |-> [q EXCEPT !.X = bx.pos, !.Vx = bx.vel, !.Y = by.pos, !.Vy = by.vel],
      rng |-> r2]

\* f(i) of the pass named phase on the shared array ps
PassTask(ps, phase, i, s, r) ==
  IF phase = "density"
  THEN [ps |-> [ps EXCEPT ![i].Density = CalculateDensity(ps, i, s.InteractionRadius)],
        rng |-> r]
  ELSE IF phase = "pressure"
  THEN [ps |-> [ps EXCEPT ![i].Pressure =
                  DefaultSimParameters.PressureMultiplier * (ps[i].Density - s.Rho0)],
        rng |-> r]
  ELSE [ps |-> [ps EXCEPT ![i] = IntegrateTask(ps[i], s, s.Dt, r).p],
        rng |-> IntegrateTask(ps[i], s, s.Dt, r).rng]

\* the two runs start from the same array and the same generator state
PassInit ==
  /\ grid = << >>
  /\ run = << >>
  /\ pc = "none"
  /\ steps = 0
  /\ tunes = 0
  /\ hist = << >>
  /\ stats = << >>
  /\ pf = NoCall
  /\ workers = NoWorkers
  /\ calls = NoCalls
  /\ prog = NoProgram
  /\ sim = NewFluidSim(SimDomain, DefaultSimParameters)
  /\ \E input \in PassInputs, seed \in 0..MaxSeed :
       /\ particles = input
       /\ probe = [stage |-> "serial",
                   cfg |-> [NumWorkers |-> 1, MinimumBatchSize |-> 1],
                   input |-> input, seed |-> seed, rng |-> seed,
                   phase |-> 1, done |-> {}, serial |-> input]

PassRunning == probe.stage \in {"serial", "parallel"}

\* a goroutine runs f(i): the next index of its chunk
PassRunTask(i) ==
  /\ PassRunning
  /\ i \notin probe.done
  /\ \A j \in PassIds :
       (j < i /\ WorkerOf(j, probe.cfg) = WorkerOf(i, probe.cfg)) => j \in probe.done
  /\ particles' = PassTask(particles, PassPhases[probe.phase], i, sim, probe.rng).ps
  /\ probe' = [probe EXCEPT
                 !.done = @ \cup {i},
                 !.rng = PassTask(particles, PassPhases[probe.phase], i, sim, probe.rng).rng]
  /\ UNCHANGED <<grid, sim, run, pc, steps, tunes, hist, stats, callVars>>

\* parallelFor returns (wg.Wait or the end of the serial loop), the next pass begins
PassNextPhase ==
  /\ PassRunning
  /\ probe.done = PassIds
  /\ probe.phase < Len(PassPhases)
  /\ probe' = [probe EXCEPT !.phase = @ + 1, !.done = {}]
  /\ UNCHANGED <<simVars, callVars>>

\* the run with one worker is over: the run with PassWorkers workers starts
\* from the same array and the same generator state
PassSecondRun ==
  /\ probe.stage = "serial"
  /\ probe.done = PassIds
  /\ probe.phase = Len(PassPhases)
  /\ particles' = probe.input
  /\ probe' = [probe EXCEPT !.stage = "parallel", !.serial = particles,
                            !.cfg = [NumWorkers |-> PassWorkers, MinimumBatchSize |-> 1],
                            !.rng = probe.seed, !.phase = 1, !.done = {}]
  /\ UNCHANGED <<grid, sim, run, pc, steps, tunes, hist, stats, callVars>>

PassCompare ==
  /\ probe.stage = "parallel"
  /\ probe.done = PassIds
  /\ probe.phase = Len(PassPhases)
  /\ probe' = [probe EXCEPT !.stage = "compared"]
  /\ UNCHANGED <<simVars, callVars>>

PassNext ==
  \/ \E i \in PassIds : PassRunTask(i)
  \/ PassNextPhase
  \/ PassSecondRun
  \/ PassCompare

PassSpec == PassInit /\ [][PassNext]_vars

\* C14: the density, pressure and integration passes run with one worker
\* and run with several workers on an identical particle array leave
\* identical particle states
C14_ParallelEqualsSerial ==
  probe.stage = "compared" => particles = probe.serial

----------------------------------------------------------------------------
(* The force terms of one pair in float64 arithmetic with overflow: a     *)
(* value is a finite number of magnitude up to MaxFloat, an infinity or   *)
(* NaN                                                                    *)

\* math.MaxFloat64: the largest finite magnitude
MaxFloat == 1000000

PosInf == MaxFloat + 1

NegInf == -(MaxFloat + 1)

NaN == MaxFloat + 2

IsFinite(a) == a # NaN /\ Abs(a) <= MaxFloat

\* math.IsNaN
FloatIsNaN(a) == a = NaN

\* the float64 nearest to the exact result v: an infinity on overflow
Rounded(v) == IF v > MaxFloat THEN PosInf ELSE IF v < -MaxFloat THEN NegInf ELSE v

\* a + b
XAdd(a, b) ==
  IF a = NaN \/ b = NaN THEN NaN
  ELSE IF ~IsFinite(a) /\ ~IsFinite(b) THEN (IF a = b THEN a ELSE NaN)
  ELSE IF ~IsFinite(a) THEN a
  ELSE IF ~IsFinite(b) THEN b
  ELSE Rounded(a + b)

\* a * b
XMul(a, b) ==
  IF a = NaN \/ b = NaN THEN NaN
  ELSE IF ~IsFinite(a) \/ ~IsFinite(b)
       THEN (IF a = 0 \/ b = 0 THEN NaN
             ELSE IF (a > 0) = (b > 0) THEN PosInf ELSE NegInf)
  ELSE IF b # 0 /\ Abs(a) > MaxFloat \div Abs(b)
       THEN (IF (a > 0) = (b > 0) THEN PosInf ELSE NegInf)
  ELSE a * b

\* a / b
XDiv(a, b) ==
  IF a = NaN \/ b = NaN THEN NaN
  ELSE IF ~IsFinite(a) /\ ~IsFinite(b) THEN NaN
  ELSE IF ~IsFinite(a) THEN (IF (a > 0) = (b >= 0) THEN PosInf ELSE NegInf)
  ELSE IF ~IsFinite(b) THEN 0
  ELSE IF b = 0 THEN (IF a = 0 THEN NaN ELSE IF a > 0 THEN PosInf ELSE NegInf)
  ELSE FDiv(a, b)

XVec(x, y) == [X |-> x, Y |-> y]

\* the term of CalculatePressureForce for one neighbour, forces in kernel sub-units
FloatPressureTerm(p, neighbor, s, pressureMultiplier) ==
  LET dx == neighbor.X - p.X
      dy == neighbor.Y - p.Y
      distSq == dx * dx + dy * dy
      h == s.InteractionRadius
  IN IF distSq < KernelEpsilon \/ distSq >= h * h THEN ZeroVec
     ELSE LET smoothedDist == SmoothedDist(Sqrt(distSq), s)
              avgPressure == XDiv(XAdd(p.Pressure, neighbor.Pressure), 2)
              forceMagnitude ==
                XMul(XMul(avgPressure, SmoothingKernelDerivative(smoothedDist, h)),
                     pressureMultiplier)
          IN XVec(XMul(XDiv(dx, smoothedDist), forceMagnitude),
                  XMul(XDiv(dy, smoothedDist), forceMagnitude))

\* the term of CalculateViscosityForce for one neighbour
FloatViscosityTerm(p, neighbor, s) ==
  LET dx == neighbor.X - p.X
      dy == neighbor.Y - p.Y
      distSq == dx * dx + dy * dy
      h == s.InteractionRadius
  IN IF distSq < KernelEpsilon \/ distSq >= h * h THEN ZeroVec
     ELSE LET smoothedDist == SmoothedDist(Sqrt(distSq), s)
              viscosityFactor == XMul(SmoothingKernelDerivative(smoothedDist, h), s.Nu)
          IN XVec(XMul(XAdd(neighbor.Vx, -p.Vx), viscosityFactor),
                  XMul(XAdd(neighbor.Vy, -p.Vy), viscosityFactor))

\* the term of CalculateRepulsionForce for one neighbour
FloatRepulsionTerm(p, neighbor, s, pressureMultiplier) ==
  LET densityDiff == neighbor.Density - p.Density
      dx == p.X - neighbor.X
      dy == p.Y - neighbor.Y
      distSq == dx * dx + dy * dy
      h == s.InteractionRadius
  IN IF densityDiff <= 0 THEN ZeroVec
     ELSE IF distSq < KernelEpsilon \/ distSq >= h * h THEN ZeroVec
     ELSE LET dist == Sqrt(distSq)
              repulsionStrength ==
                XMul(XDiv(XMul(densityDiff, Sqrt(densityDiff)), 10), pressureMultiplier)
          IN XVec(XMul(XDiv(dx, dist), repulsionStrength),
                  XMul(XDiv(dy, dist), repulsionStrength))

\* what accumulateCellAttractionForces adds to p1 for the pair (p1, p2)
FloatAttractionTerm(p1, p2, s) ==
  LET dx == p2.X - p1.X
      dy == p2.Y - p1.Y
      distSq == dx * dx + dy * dy
      h == s.InteractionRadius
  IN IF distSq >= h * h \/ distSq < KernelEpsilon THEN ZeroVec
     ELSE LET distance == Sqrt(distSq)
              smoothedDist == SmoothedDist(distance, s)
          IN IF smoothedDist < KernelEpsilon THEN ZeroVec
             ELSE LET massFactor == p1.Mass * p2.Mass
                      forceMagnitude == XDiv(XMul(s.AttractionFactor, massFactor),
                                             smoothedDist * smoothedDist)
                      G == XDiv(forceMagnitude, distance)
                      forceX == XMul(G, dx)
                      forceY == XMul(G, dy)
                  IN IF FloatIsNaN(forceX) \/ FloatIsNaN(forceY) THEN ZeroVec
                     ELSE XVec(forceX, forceY)

\* the tunable values: an ordinary one and the largest finite one
Extremes(v) == {v, IF v < 0 THEN -MaxFloat ELSE MaxFloat}

\* the neighbour's offsets from the particle, all within the radius
PairOffsets == {<<1, 0>>, <<0, 1>>, <<1, 1>>}

\* a particle and one neighbour, finite in every field, and finite parameters
FloatInit ==
  /\ grid = << >>
  /\ run = << >>
  /\ pc = "none"
  /\ steps = 0
  /\ tunes = 0
  /\ hist = << >>
  /\ stats = << >>
  /\ pf = NoCall
  /\ workers = NoWorkers
  /\ calls = NoCalls
  /\ prog = NoProgram
  /\ particles = << >>
  /\ \E nu \in Extremes(DefaultSimParameters.Nu),
        af \in Extremes(DefaultSimParameters.AttractionFactor) :
       sim = NewFluidSim(SimDomain, [DefaultSimParameters EXCEPT !.Nu = nu,
                                                                 !.AttractionFactor = af])
  /\ \E pm \in Extremes(DefaultSimParameters.PressureMultiplier), o \in PairOffsets,
        d \in {2, 6} \X {2, 6}, v \in {0, 1} \X {0, 1}, m \in Masses :
       probe = [stage |-> "pressure",
                pressureMultiplier |-> pm,
                p |-> [PassParticle(0, 1, 0) EXCEPT !.Y = 1, !.Density = d[1], !.Mass = m],
                neighbor |-> [PassParticle(1, 1 + o[1], v[1]) EXCEPT
                                !.Y = 1 + o[2], !.Vy = v[2], !.Density = d[2]]]

\* UpdatePressure for the two particles
FloatUpdatePressure ==
  /\ probe.stage = "pressure"
  /\ probe' = [probe EXCEPT
       !.stage = "standard",
       !.p.Pressure = XMul(probe.pressureMultiplier, probe.p.Density - sim.Rho0),
       !.neighbor.Pressure = XMul(probe.pressureMultiplier, probe.neighbor.Density - sim.Rho0)]
  /\ UNCHANGED <<simVars, callVars>>

\* CalculateStandardForces for the particle: Force += pressure + viscosity + repulsion
FloatStandardForces ==
  /\ probe.stage = "standard"
  /\ LET pressureForce == FloatPressureTerm(probe.p, probe.neighbor, sim, probe.pressureMultiplier)
         viscosityForce == FloatViscosityTerm(probe.p, probe.neighbor, sim)
         repulsionForce == FloatRepulsionTerm(probe.p, probe.neighbor, sim, probe.pressureMultiplier)
     IN probe' = [probe EXCEPT
          !.stage = "attraction",
          !.p.Force = XVec(XAdd(@.X, XAdd(XAdd(pressureForce.X, viscosityForce.X), repulsionForce.X)),
                           XAdd(@.Y, XAdd(XAdd(pressureForce.Y, viscosityForce.Y), repulsionForce.Y)))]
  /\ UNCHANGED <<simVars, callVars>>

\* CalculateAttractionForces for the pair: the accumulated force is added to the particle
FloatAttractionForces ==
  /\ probe.stage = "attraction"
  /\ LET f == FloatAttractionTerm(probe.p, probe.neighbor, sim)
     IN probe' = [probe EXCEPT
          !.stage = "done",
          !.p.Force = XVec(XAdd(@.X, f.X), XAdd(@.Y, f.Y))]
  /\ UNCHANGED <<simVars, callVars>>

FloatNext ==
  \/ FloatUpdatePressure
  \/ FloatStandardForces
  \/ FloatAttractionForces

FloatSpec == FloatInit /\ [][FloatNext]_vars

\* C15: no NaN or infinite component is ever added to a particle's force
\* accumulator by the pressure, viscosity, repulsion and attraction
\* computations: the accumulated force stays finite
C15_ForcesStayFinite ==
  probe.stage \in {"attraction", "done"} =>
    (IsFinite(probe.p.Force.X) /\ IsFinite(probe.p.Force.Y))

----------------------------------------------------------------------------
(* The divisions of the force pipeline during a run *)

\* every pair divides, guarded or not
UnguardedDivisors(p, q, s) ==
  LET dist == Sqrt(DistSq(p, q))
  IN {SmoothedDist(dist, s), dist, SmoothedDist(dist, s) * SmoothedDist(dist, s)}

\* the values the pressure, repulsion and attraction terms of the pair
\* (p, q) divide by: smoothedDist (invDist), dist, smoothedDist^2 and
\* distance; none when the distance guard skips the pair
PairDivisors(p, q, s) ==
  LET distSq == DistSq(p, q)
      h == s.InteractionRadius
  IN IF distSq < KernelEpsilon \/ distSq >= h * h THEN {}
     ELSE LET dist == Sqrt(distSq)
          IN {SmoothedDist(dist, s), dist, SmoothedDist(dist, s) * SmoothedDist(dist, s)}

\* the value Integrate divides the force by: the mass, when it is positive
IntegrateDivisors(p) == IF p.Mass > 0 THEN {p.Mass} ELSE {}

\* C16: every division of the force pipeline is guarded: a pair whose
\* squared distance is below the epsilon contributes nothing to the
\* pressure, viscosity, repulsion and attraction terms, and no division by
\* a zero distance, zero smoothed distance or zero mass is executed
C16_DivisionsGuarded ==
  /\ pc \in {"standard", "attraction"} =>
       \A i \in ParticleIds, j \in ParticleIds :
         /\ 0 \notin PairDivisors(particles[i], particles[j], sim)
         /\ DistSq(particles[i], particles[j]) < KernelEpsilon =>
              /\ PressureTerm(particles[i], particles[j], sim,
                              run.currentPressureMultiplier) = ZeroVec
              /\ ViscosityTerm(particles[i], particles[j], sim) = ZeroVec
              /\ RepulsionTerm(particles[i], particles[j], sim,
                               run.currentPressureMultiplier) = ZeroVec
              /\ PairForce(particles[i], particles[j], sim, sim.AttractionFactor,
                           sim.InteractionRadius * sim.InteractionRadius) = ZeroVec
  /\ pc = "integrate" => \A i \in ParticleIds : 0 \notin IntegrateDivisors(particles[i])

\* the standard forces are about to be computed for a particle that has a
\* coincident neighbour of another density and velocity, and a neighbour
\* at a distance
C16_Witness ==
  /\ pc = "standard"
  /\ \E i \in ParticleIds, j \in ParticleIds, k \in ParticleIds :
       /\ i # j
       /\ DistSq(particles[i], particles[j]) = 0
       /\ j \in SeqToSet(particles[i].NeighborIndices)
       /\ particles[i].Pressure + particles[j].Pressure # 0
       /\ particles[i].Vx # particles[j].Vx
       /\ k \in SeqToSet(particles[i].NeighborIndices)
       /\ PairDivisors(particles[i], particles[k], sim) # {}

----------------------------------------------------------------------------
(* SetParallelConfig calls followed by a parallelFor call *)

\* the SetParallelConfig calls before the parallelFor call
MaxConfigCalls == 2

\* MinimumBatchSize of defaultParallelConfig, in the scale of the model's ranges
DefaultMinimumBatchSize == 2

\* the configurations a caller can pass: zero and negative values included
GivenConfigs == [NumWorkers : (-1)..MaxWorkers, MinimumBatchSize : (-1)..MaxBatch]

\* a SetParallelConfig that takes over the minimum batch size unchecked
BatchSizeAssigned(current, config) ==
  [NumWorkers |-> IF config.NumWorkers > 0 THEN config.NumWorkers ELSE current.NumWorkers,
   MinimumBatchSize |-> config.MinimumBatchSize]

\* defaultParallelConfig after SetParallelConfig(config): a field is taken
\* over only when it is positive
SetParallelConfig(current, config) ==
  [NumWorkers |-> IF config.NumWorkers > 0 THEN config.NumWorkers ELSE current.NumWorkers,
   MinimumBatchSize |-> IF config.MinimumBatchSize > 0 THEN config.MinimumBatchSize
                        ELSE current.MinimumBatchSize]

\* defaultParallelConfig as the package initialises it, on a machine of
\* 1..MaxCPU processors, and the parallelFor call that will be made
ConfigInit ==
  /\ SimUnused
  /\ probe = NoProbe
  /\ prog = [kind |-> "config", sets |-> 0, invalid |-> 0]
  /\ workers = IdleWorkers
  /\ calls = NoInvocations(1)
  /\ \E numCPU \in 1..MaxCPU, start \in 0..MaxStart, n \in 0..MaxRange :
       pf = MkCall("chunked",
                   [NumWorkers |-> numCPU, MinimumBatchSize |-> DefaultMinimumBatchSize],
                   1, start, start + n, "config")

ConfigSet ==
  /\ pf.pos = "config"
  /\ prog.sets < MaxConfigCalls
  /\ \E config \in GivenConfigs :
       /\ pf' = [pf EXCEPT !.cfg = SetParallelConfig(pf.cfg, config)]
       /\ prog' = [prog EXCEPT
                     !.sets = @ + 1,
                     !.invalid = IF config.NumWorkers <= 0 /\ config.MinimumBatchSize <= 0
                                 THEN @ + 1 ELSE @]
  /\ UNCHANGED <<workers, calls, simVars, probe>>

\* the caller calls parallelFor(start, end, f)
ConfigCall ==
  /\ pf.pos = "config"
  /\ pf' = [pf EXCEPT !.pos = "entry"]
  /\ UNCHANGED <<workers, calls, prog, simVars, probe>>

ConfigNext ==
  \/ ConfigSet
  \/ ConfigCall
  \/ PFEnter
  \/ SerialBegin
  \/ SerialEnd
  \/ SerialReturn
  \/ Spawn
  \/ \E w \in WorkerIds : WorkerBegin(w)
  \/ \E w \in WorkerIds : WorkerEnd(w)
  \/ \E w \in WorkerIds : WorkerDone(w)
  \/ WaitReturn

ConfigSpec == ConfigInit /\ [][ConfigNext]_vars

\* C17: after any sequence of SetParallelConfig calls, calls with a zero or
\* negative worker count or minimum batch size included, the effective
\* worker count and minimum batch size are both >= 1, and parallelFor
\* processes every index of its range, once
C17_ConfigStaysUsable ==
  /\ pf.cfg.NumWorkers >= 1
  /\ pf.cfg.MinimumBatchSize >= 1
  /\ InvokedAtMostOnce
  /\ JoinedOnReturn

\* parallelFor has run on several goroutines and returned after two
\* SetParallelConfig calls with a non-positive worker count and batch size
C17_Witness ==
  /\ pf.pos = "returned"
  /\ prog.invalid = MaxConfigCalls
  /\ pf.numWorkers > 1
  /\ pf.end - pf.start > pf.cfg.MinimumBatchSize

----------------------------------------------------------------------------
(* NewGrid with any cell size *)

\* the builds of the program: what int(f) gives for an infinite or NaN f
\* depends on the processor
Architectures == {"amd64", "arm64"}

\* the smallest and the largest int, in the word of 2 * KeyBits bits
MinInt == -((KeyModulus * KeyModulus) \div 2)

MaxInt == ((KeyModulus * KeyModulus) \div 2) - 1

\* int(a / b) for any b: a / 0 is +Inf, -Inf or NaN, and its conversion is
\* implementation-dependent (the indefinite integer on amd64, saturation and
\* 0 for NaN on arm64)
IntOfAnyQuotient(arch, a, b) ==
  IF b # 0 THEN IntOfQuotient(a, b)
  ELSE IF arch = "amd64" THEN MinInt
  ELSE IF a > 0 THEN MaxInt
  ELSE IF a < 0 THEN MinInt
  ELSE 0

\* NewGrid for any cell size: the cell size is stored as it is given
NewGridOn(arch, cellSize, domainX, domainY) ==
  [CellMap |-> << >>,
   CellSize |-> cellSize,
   NumCellsX |-> IntOfAnyQuotient(arch, domainX, cellSize),
   NumCellsY |-> IntOfAnyQuotient(arch, domainY, cellSize)]

\* the second loop of Update with the cell of each particle given
RECURSIVE FillCellsAt(_, _, _)
FillCellsAt(cellMap, cells, idx) ==
  IF idx >= NumParticles THEN cellMap
  ELSE FillCellsAt(AddToCell(cellMap, MakeCellIndex(cells[idx][1], cells[idx][2]), idx),
                   cells, idx + 1)

\* Grid.Update for any cell size
UpdateOn(arch, g, ps) ==
  LET cells == [i \in ParticleIds |->
                  << IntOfAnyQuotient(arch, ps[i].X, g.CellSize),
                     IntOfAnyQuotient(arch, ps[i].Y, g.CellSize) >>]
  IN [grid |-> [g EXCEPT !.CellMap = FillCellsAt(ClearCells(g.CellMap), cells, 0)],
      particles |-> [i \in ParticleIds |->
                       [ps[i] EXCEPT !.CellX = cells[i][1], !.CellY = cells[i][2]]]]

\* a caller about to build a grid with any cell size, zero and negative
\* included, for particles inside the domain
CellInit ==
  /\ \E cellSize \in (-1)..MaxRadius, arch \in Architectures,
        x \in 0..DomainSize, y \in 0..DomainSize :
       /\ particles = [i \in ParticleIds |->
                         [NewParticle(i, SimDomain, DefaultSimParameters, 0)
                            EXCEPT !.X = IF i = 0 THEN x ELSE i,
                                   !.Y = IF i = 0 THEN y ELSE i]]
       /\ probe = [stage |-> "construct", cellSize |-> cellSize, arch |-> arch]
  /\ grid = << >>
  /\ sim = << >>
  /\ run = << >>
  /\ pc = "construct"
  /\ steps = 0
  /\ tunes = 0
  /\ hist = << >>
  /\ stats = [mean |-> 0, std |-> 0]
  /\ pf = NoCall
  /\ workers = NoWorkers
  /\ calls = NoCalls
  /\ prog = NoProgram

GridConstruct ==
  /\ pc = "construct"
  /\ grid' = NewGridOn(probe.arch, probe.cellSize, SimDomain.X, SimDomain.Y)
  /\ pc' = "grid"
  /\ UNCHANGED <<particles, sim, run, steps, tunes, hist, stats>>
  /\ UNCHANGED <<callVars, probe>>

GridRebuild ==
  /\ pc = "grid"
  /\ grid' = UpdateOn(probe.arch, grid, particles).grid
  /\ particles' = UpdateOn(probe.arch, grid, particles).particles
  /\ pc' = "neighbors"
  /\ UNCHANGED <<sim, run, steps, tunes, hist, stats>>
  /\ UNCHANGED <<callVars, probe>>

CellNext ==
  \/ GridConstruct
  \/ GridRebuild

CellSpec == CellInit /\ [][CellNext]_vars

\* C18: the grid built by NewGrid has CellSize > 0 whatever cell size was
\* passed, zero and negative included, and after Update every particle is
\* filed under the cell that holds its position
C18_CellSizePositive ==
  /\ pc \in {"grid", "neighbors"} => grid.CellSize > 0
  /\ pc = "neighbors" =>
       \A i \in ParticleIds :
         /\ particles[i].CellX * grid.CellSize <= particles[i].X
         /\ particles[i].X < (particles[i].CellX + 1) * grid.CellSize
         /\ particles[i].CellY * grid.CellSize <= particles[i].Y
         /\ particles[i].Y < (particles[i].CellY + 1) * grid.CellSize

----------------------------------------------------------------------------
(* The kernel and the density as functions *)

\* the radii h of the kernel: 1..MaxKernelRadius
MaxKernelRadius == 4

\* the distances: 0..MaxKernelDistance, on both sides of h
MaxKernelDistance == 6

\* a radius and two distances, before the kernel is evaluated
KernelInit ==
  /\ SimUnused
  /\ pf = NoCall
  /\ workers = NoWorkers
  /\ calls = NoCalls
  /\ prog = NoProgram
  /\ \E h \in 1..MaxKernelRadius, d1 \in 0..MaxKernelDistance, d2 \in 0..MaxKernelDistance :
       probe = [stage |-> "distances", h |-> h, d1 |-> d1, d2 |-> d2]

KernelApply ==
  /\ probe.stage = "distances"
  /\ probe' = [stage |-> "kernel", h |-> probe.h, d1 |-> probe.d1, d2 |-> probe.d2,
               w1 |-> SmoothingKernel(probe.d1, probe.h),
               w2 |-> SmoothingKernel(probe.d2, probe.h),
               dw1 |-> SmoothingKernelDerivative(probe.d1, probe.h)]
  /\ UNCHANGED <<simVars, callVars>>

KernelNext == KernelApply

KernelSpec == KernelInit /\ [][KernelNext]_vars

\* C19: for d >= h the kernel and its derivative are 0; for d in [0, h) the
\* kernel is > 0, and of two distances in [0, h) the larger has the strictly
\* smaller kernel value
C19_KernelSupport ==
  probe.stage = "kernel" =>
    /\ probe.d1 >= probe.h => probe.w1 = 0 /\ probe.dw1 = 0
    /\ probe.d1 < probe.h => probe.w1 > 0
    /\ probe.d1 < probe.d2 /\ probe.d2 < probe.h => probe.w1 > probe.w2

\* the kernel evaluated at two different distances inside the support, the
\* larger next to h, and at the largest radius
C19_Witness ==
  /\ probe.stage = "kernel"
  /\ probe.h = MaxKernelRadius
  /\ 0 < probe.d1
  /\ probe.d1 < probe.d2
  /\ probe.d2 = probe.h - 1
  /\ probe.w2 > 0

\* the positions of the particle whose density is computed
DensityCentres == {<<0, 0>>, <<DomainSize \div 2, DomainSize \div 2>>}

\* the neighbour lists of that particle: with and without itself, with and
\* without the third particle
DensityLists == {<<1>>, <<1, 2>>, <<0, 1, 2>>}

\* the array in which particle 0 is at centre, particle 1 at at1, particle 2
\* at at2, and particle 0 has the neighbour list list
DensityConfiguration(centre, at1, at2, list) ==
  [i \in ParticleIds |->
     LET at == IF i = 0 THEN centre ELSE IF i = 1 THEN at1 ELSE at2
     IN [NewParticle(i, SimDomain, DefaultSimParameters, 0)
           EXCEPT !.X = at[1], !.Y = at[2],
                  !.NeighborIndices = IF i = 0 THEN list ELSE << >>]]

\* two configurations that differ in the position of particle 1 only: within
\* h of particle 0 in both, and in the second one at most as far as in the
\* first. particles is the first, probe.near the second
DensityInit ==
  /\ grid = << >>
  /\ sim = << >>
  /\ run = << >>
  /\ pc = "none"
  /\ steps = 0
  /\ tunes = 0
  /\ hist = << >>
  /\ stats = << >>
  /\ pf = NoCall
  /\ workers = NoWorkers
  /\ calls = NoCalls
  /\ prog = NoProgram
  /\ \E h \in 1..MaxKernelRadius, centre \in DensityCentres, list \in DensityLists,
        far \in (0..DomainSize) \X (0..DomainSize),
        near \in (0..DomainSize) \X (0..DomainSize),
        other \in 0..DomainSize :
       LET first == DensityConfiguration(centre, far, <<other, other>>, list)
           second == DensityConfiguration(centre, near, <<other, other>>, list)
       IN /\ DistSq(first[0], first[1]) < h * h
          /\ DistSq(second[0], second[1]) <= DistSq(first[0], first[1])
          /\ particles = first
          /\ probe = [stage |-> "configurations", h |-> h, near |-> second]

DensityCompute ==
  /\ probe.stage = "configurations"
  /\ probe' = [stage |-> "densities", h |-> probe.h, near |-> probe.near,
               rhoFar |-> CalculateDensity(particles, 0, probe.h),
               rhoNear |-> CalculateDensity(probe.near, 0, probe.h)]
  /\ UNCHANGED <<simVars, callVars>>

DensityNext == DensityCompute

DensitySpec == DensityInit /\ [][DensityNext]_vars

\* C20: of two configurations that differ only in one neighbour of particle
\* i being closer to i, within h in both, the density of i in the closer one
\* is not smaller; and every density is at least the self term kernel(0, h),
\* which is >= 0
C20_DensityMonotone ==
  probe.stage = "densities" =>
    /\ probe.rhoNear >= probe.rhoFar
    /\ probe.rhoFar >= SmoothingKernel(0, probe.h)
    /\ probe.rhoNear >= SmoothingKernel(0, probe.h)
    /\ SmoothingKernel(0, probe.h) >= 0

\* the densities of two configurations in which the neighbour is strictly
\* closer in the second, the third particle contributes too, and the
\* neighbour list holds the particle itself
C20_Witness ==
  /\ probe.stage = "densities"
  /\ DistSq(probe.near[0], probe.near[1]) < DistSq(particles[0], particles[1])
  /\ DistSq(probe.near[0], probe.near[1]) > 0
  /\ DistSq(particles[0], particles[2]) < probe.h * probe.h
  /\ particles[0].NeighborIndices = <<0, 1, 2>>
  /\ probe.rhoNear > probe.rhoFar
  /\ probe.rhoFar > 2 * SmoothingKernel(0, probe.h)

----------------------------------------------------------------------------
(* Properties of the neighbour lists *)

\* is j in the neighbour list of particle i
Listed(ps, i, j) ==
  \E k \in 1..Len(ps[i].NeighborIndices) : ps[i].NeighborIndices[k] = j

\* C21: after FindNeighbors no particle's neighbour list holds the
\* particle's own index, and every index in it is an index of the particle
\* array
C21_NeighborsValid ==
  AfterFindNeighbors =>
    \A i \in ParticleIds :
      \A k \in 1..Len(particles[i].NeighborIndices) :
        /\ particles[i].NeighborIndices[k] # i
        /\ particles[i].NeighborIndices[k] \in ParticleIds

\* FindNeighbors has run on particles of which one, at a negative
\* coordinate, has a neighbour and another has none
C21_Witness ==
  /\ pc = "density"
  /\ \E i \in ParticleIds :
       /\ particles[i].X < 0
       /\ particles[i].NeighborIndices # << >>
  /\ \E j \in ParticleIds : particles[j].NeighborIndices = << >>

\* C30: after FindNeighbors j is in the list of i if and only if i is in
\* the list of j, and no index occurs twice in one list
C30_NeighborsSymmetric ==
  AfterFindNeighbors =>
    \A i \in ParticleIds :
      /\ \A j \in ParticleIds : Listed(particles, i, j) <=> Listed(particles, j, i)
      /\ Cardinality(SeqToSet(particles[i].NeighborIndices))
           = Len(particles[i].NeighborIndices)

\* in the second step, after a key has changed the interaction radius, a
\* particle has a neighbour that is filed under another cell
C30_Witness ==
  /\ pc = "density"
  /\ steps = 1
  /\ grid.CellSize # sim.InteractionRadius
  /\ \E i \in ParticleIds, j \in ParticleIds :
       /\ Listed(particles, i, j)
       /\ Listed(particles, j, i)
       /\ CellKeyOf(particles[i], grid.CellSize) # CellKeyOf(particles[j], grid.CellSize)

----------------------------------------------------------------------------
(* Properties of the particle array during a run *)

\* C22: across any sequence of Step calls and mouse impulses the particle
\* array keeps the length given at initialization, and every particle's
\* mass stays unchanged and strictly positive
C22_ArrayAndMassKept ==
  /\ [](/\ DOMAIN particles = ParticleIds
        /\ \A i \in ParticleIds : particles[i].Mass > 0)
  /\ [][\A i \in ParticleIds : particles'[i].Mass = particles[i].Mass]_vars

\* two steps and a mouse impulse have passed over particles of different
\* masses, and the last step has changed a velocity
C22_Witness ==
  /\ pc = "idle"
  /\ steps = 2
  /\ hist.clicks > 0
  /\ \E i \in ParticleIds, j \in ParticleIds : particles[i].Mass # particles[j].Mass
  /\ \E i \in ParticleIds : hist.dV[i] # ZeroVec

\* C23: a mouse impulse between steps perturbs the velocity of exactly the
\* particles whose current position is within the force radius of the
\* impulse point and not closer than the minimum distance, each once, and
\* leaves every position and every other velocity unchanged
C23_ImpulseReachesRadius ==
  [][(hist'.clicks # hist.clicks /\ steps > 0) =>
       \A i \in ParticleIds :
         particles'[i] = MousePush(particles[i], hist'.at[1], hist'.at[2],
                                   MouseForce, MouseForceRadius)]_vars

----------------------------------------------------------------------------
(* CalculatePressureStats with its two parallelFor passes, goroutine by    *)
(* goroutine                                                               *)

\* the particles of a non-empty array: enough for parallelFor to start two
\* goroutines
StatCount == 5

\* a pressure is held in sub-units: StatScale of them make one unit, so that
\* int64(pressure * 1000) truncates
StatScale == 2000

\* the pressures of a particle: negative, zero, below and above 0.001
StatPressures == {-3, 0, 1, StatScale + 3}

\* the pressure arrays: empty, of one particle, and of StatCount particles of
\* which three have any of the pressures
StatInputs ==
  {<< >>} \cup {<<a>> : a \in StatPressures} \cup
  {[k \in 1..StatCount |->
      IF k = 1 THEN a ELSE IF k = 2 THEN b ELSE IF k = StatCount - 1 THEN c ELSE 1] :
     a \in StatPressures, b \in StatPressures, c \in StatPressures}

\* the goroutines parallelFor(0, n, f) runs f on: 1 when it runs serially
StatGoroutines(n, cfg) ==
  IF n <= cfg.MinimumBatchSize \/ PlannedWorkers(n, cfg) <= 1 THEN 1
  ELSE PlannedWorkers(n, cfg)

\* chunkStart of goroutine g
StatChunkStart(n, cfg, g) ==
  IF StatGoroutines(n, cfg) = 1 THEN 0
  ELSE ChunkStart(0, g, ItemsPerWorker(n, StatGoroutines(n, cfg)))

\* chunkEnd of goroutine g
StatChunkEnd(n, cfg, g) ==
  IF StatGoroutines(n, cfg) = 1 THEN n
  ELSE ChunkEnd(0, n, g, ItemsPerWorker(n, StatGoroutines(n, cfg)))

\* the goroutines at the start of a parallelFor call
StatStart(n, cfg) ==
  [g \in 0..(StatGoroutines(n, cfg) - 1) |->
     [i |-> StatChunkStart(n, cfg, g), chunkEnd |-> StatChunkEnd(n, cfg, g), held |-> -1]]

\* int64(sim.Particles[i].Pressure * 1000)
PressureScaled(pressure) == FDiv(pressure * 1000, StatScale)

\* a store in place of the atomic add: the earlier contents are lost
StoreInt64(slots, k, delta) == [slots EXCEPT ![k] = delta]

\* atomic.AddInt64(&slots[k], delta)
AddInt64(slots, k, delta) == [slots EXCEPT ![k] = @ + delta]

\* float64(totalSum) / (float64(n) * 1000.0), in sub-units
MeanOf(totalSum, n) == FDiv(totalSum * StatScale, n * 1000)

\* the pressures, runtime.NumCPU() and the call of CalculatePressureStats
StatsInit ==
  /\ particles = << >>
  /\ grid = << >>
  /\ sim = << >>
  /\ run = << >>
  /\ pc = "none"
  /\ steps = 0
  /\ tunes = 0
  /\ hist = << >>
  /\ stats = << >>
  /\ pf = NoCall
  /\ calls = NoCalls
  /\ prog = NoProgram
  /\ workers = << >>
  /\ \E pressure \in StatInputs, numCPU \in 1..MaxCPU :
       probe = [stage |-> "called",
                Pressure |-> [i \in 0..(Len(pressure) - 1) |-> pressure[i + 1]],
                n |-> Len(pressure),
                cfg |-> [NumWorkers |-> numCPU, MinimumBatchSize |-> DefaultMinimumBatchSize],
                localAtomics |-> [k \in 0..(numCPU - 1) |-> 0],
                statsBuffers |-> [k \in 0..(2 * numCPU - 1) |-> 0],
                totalSum |-> 0, meanPressure |-> 0, varianceSum |-> 0,
                raced |-> FALSE]

\* if n == 0 { return 0, 0 }
StatsEmpty ==
  /\ probe.stage = "called"
  /\ probe.n = 0
  /\ stats' = [mean |-> 0, std |-> 0]
  /\ probe' = [probe EXCEPT !.stage = "returned"]
  /\ UNCHANGED <<particles, grid, sim, run, pc, steps, tunes, hist, callVars>>

\* the counters are reset and the first parallelFor starts its goroutines
StatsBegin ==
  /\ probe.stage = "called"
  /\ probe.n > 0
  /\ probe' = [probe EXCEPT !.stage = "sum",
                            !.localAtomics = [k \in DOMAIN @ |-> 0]]
  /\ workers' = StatStart(probe.n, probe.cfg)
  /\ UNCHANGED <<particles, grid, sim, run, pc, steps, tunes, hist, stats,
                 pf, calls, prog>>

\* f(i) of the first pass in goroutine g
StatsAdd(g) ==
  /\ probe.stage = "sum"
  /\ g \in DOMAIN workers
  /\ workers[g].i < workers[g].chunkEnd
  /\ LET i == workers[g].i
         workerID == i % Cardinality(DOMAIN probe.localAtomics)
     IN probe' = [probe EXCEPT
                    !.localAtomics = AddInt64(@, workerID, PressureScaled(probe.Pressure[i]))]
  /\ workers' = [workers EXCEPT ![g].i = @ + 1]
  /\ UNCHANGED <<particles, grid, sim, run, pc, steps, tunes, hist, stats,
                 pf, calls, prog>>

\* the first parallelFor has returned: the counters are summed, the mean is
\* computed, the buffers are reset and the second parallelFor starts
StatsMean ==
  /\ probe.stage = "sum"
  /\ \A g \in DOMAIN workers : workers[g].i = workers[g].chunkEnd
  /\ LET totalSum == SumOver(probe.localAtomics, DOMAIN probe.localAtomics)
     IN probe' = [probe EXCEPT !.stage = "variance",
                               !.totalSum = totalSum,
                               !.meanPressure = MeanOf(totalSum, probe.n),
                               !.statsBuffers = [k \in DOMAIN @ |-> 0]]
  /\ workers' = StatStart(probe.n, probe.cfg)
  /\ UNCHANGED <<particles, grid, sim, run, pc, steps, tunes, hist, stats,
                 pf, calls, prog>>

\* the slot f(i) of the second pass adds to
BufferOf(i) == i % (Cardinality(DOMAIN probe.statsBuffers) \div 2)

\* f(i) of the second pass in goroutine g, first half of the +=: the slot
\* is read
StatsLoad(g) ==
  /\ probe.stage = "variance"
  /\ g \in DOMAIN workers
  /\ workers[g].i < workers[g].chunkEnd
  /\ workers[g].held = -1
  /\ workers' = [workers EXCEPT ![g].held = probe.statsBuffers[BufferOf(workers[g].i)]]
  /\ probe' = [probe EXCEPT
                 !.raced = @ \/ \E h \in DOMAIN workers :
                                  /\ h # g
                                  /\ workers[h].held # -1
                                  /\ BufferOf(workers[h].i) = BufferOf(workers[g].i)]
  /\ UNCHANGED <<particles, grid, sim, run, pc, steps, tunes, hist, stats,
                 pf, calls, prog>>

\* second half of the +=: the sum is written back
StatsStore(g) ==
  /\ probe.stage = "variance"
  /\ g \in DOMAIN workers
  /\ workers[g].held # -1
  /\ LET i == workers[g].i
         diff == probe.Pressure[i] - probe.meanPressure
     IN probe' = [probe EXCEPT !.statsBuffers[BufferOf(i)] = workers[g].held + diff * diff]
  /\ workers' = [workers EXCEPT ![g].i = @ + 1, ![g].held = -1]
  /\ UNCHANGED <<particles, grid, sim, run, pc, steps, tunes, hist, stats,
                 pf, calls, prog>>

\* the second parallelFor has returned: the first half of the buffers is
\* summed and the statistics are returned
StatsReturn ==
  /\ probe.stage = "variance"
  /\ \A g \in DOMAIN workers : workers[g].i = workers[g].chunkEnd
  /\ LET half == 0..((Cardinality(DOMAIN probe.statsBuffers) \div 2) - 1)
         varianceSum == SumOver(probe.statsBuffers, half)
     IN /\ probe' = [probe EXCEPT !.stage = "returned", !.varianceSum = varianceSum]
        /\ stats' = [mean |-> probe.meanPressure,
                     std |-> Sqrt(FDiv(varianceSum, probe.n))]
  /\ UNCHANGED <<particles, grid, sim, run, pc, steps, tunes, hist, workers,
                 pf, calls, prog>>

StatsNext ==
  \/ StatsEmpty
  \/ StatsBegin
  \/ \E g \in 0..(MaxCPU - 1) : StatsAdd(g)
  \/ StatsMean
  \/ \E g \in 0..(MaxCPU - 1) : StatsLoad(g)
  \/ \E g \in 0..(MaxCPU - 1) : StatsStore(g)
  \/ StatsReturn

StatsSpec == StatsInit /\ [][StatsNext]_vars

\* the sum of int64(pressure_i * 1000) over the particles
TruncatedSum == SumOver([i \in DOMAIN probe.Pressure |-> PressureScaled(probe.Pressure[i])],
                        DOMAIN probe.Pressure)

\* the sum of (pressure_i - mean)^2 over the particles
SquaredDeviations ==
  SumOver([i \in DOMAIN probe.Pressure |->
             (probe.Pressure[i] - probe.meanPressure) * (probe.Pressure[i] - probe.meanPressure)],
          DOMAIN probe.Pressure)

\* C24: for every interleaving of the goroutines the mean pressure returned
\* is (sum over the particles of trunc(pressure_i * 1000)) / (1000 * n),
\* which differs from the exact mean by less than 0.001; with zero particles
\* the statistics are (0, 0)
C24_MeanFromTruncatedSum ==
  /\ (probe.stage \in {"variance", "returned"} /\ probe.n > 0) =>
       /\ probe.totalSum = TruncatedSum
       /\ probe.meanPressure = MeanOf(TruncatedSum, probe.n)
       /\ Abs(StatScale * probe.totalSum
              - 1000 * SumOver(probe.Pressure, DOMAIN probe.Pressure)) < StatScale * probe.n
  /\ (probe.stage = "returned" /\ probe.n > 0) => stats.mean = probe.meanPressure
  /\ (probe.stage = "returned" /\ probe.n = 0) => stats = [mean |-> 0, std |-> 0]

\* the statistics of StatCount particles have been returned after two
\* goroutines added to the counters, and truncation has changed the sum
C24_Witness ==
  /\ probe.stage = "returned"
  /\ probe.n = StatCount
  /\ StatGoroutines(probe.n, probe.cfg) = 2
  /\ probe.totalSum # 0
  /\ StatScale * probe.totalSum # 1000 * SumOver(probe.Pressure, DOMAIN probe.Pressure)
  /\ \E i \in DOMAIN probe.Pressure : probe.Pressure[i] < 0

\* C25: for every interleaving of the goroutines of the second pass the
\* standard deviation returned is sqrt(sum over the particles of
\* (pressure_i - mean)^2 / n): a slot of the buffer is written by one
\* goroutine at a time and no squared deviation is lost
C25_DeviationsAllCounted ==
  /\ ~probe.raced
  /\ (probe.stage = "returned" /\ probe.n > 0) =>
       /\ probe.varianceSum = SquaredDeviations
       /\ stats.std = Sqrt(FDiv(SquaredDeviations, probe.n))

----------------------------------------------------------------------------
(* CalculateAttractionForces on its own: the pass of a Step over any       *)
(* placement of the particles                                              *)

\* the presses of the key t before the Step: each adds 1 to the radius
MaxPresses == 2

\* the y coordinates of a placement
AttractRows == {-1, 0, 2}

\* a Step that has reached the attraction pass: the grid, built with the
\* initial radius as its cell size, has been updated from the positions,
\* and the keys have left the interaction radius at or above that cell size
AttractInit ==
  /\ \E h \in 1..MaxRadius, presses \in {0, MaxPresses}, factor \in {8},
        at0 \in GridBox \X AttractRows, at1 \in GridBox \X AttractRows, at2 \in GridBox :
       LET params == [AttractionOnly(factor) EXCEPT !.InteractionRadius = h]
           placed == [i \in ParticleIds |->
                        LET at == IF i = 0 THEN at0 ELSE IF i = 1 THEN at1 ELSE <<at2, at2>>
                        IN [NewParticle(i, SimDomain, params, i)
                              EXCEPT !.X = at[1], !.Y = at[2]]]
           built == Update(NewGrid(h, SimDomain.X, SimDomain.Y), placed)
       IN /\ particles = built.particles
          /\ grid = built.grid
          /\ sim = [NewFluidSim(SimDomain, params) EXCEPT !.InteractionRadius = Min(50, h + presses)]
          /\ run = [currentGravity |-> params.Gravity,
                    currentPressureMultiplier |-> params.PressureMultiplier]
  /\ pc = "attraction"
  /\ steps = 0
  /\ tunes = 0
  /\ hist = << >>
  /\ stats = [mean |-> 0, std |-> 0]
  /\ pf = NoCall
  /\ workers = NoWorkers
  /\ calls = NoCalls
  /\ prog = NoProgram
  /\ probe = NoProbe

AttractNext == StepCalculateAttractionForces

AttractSpec == AttractInit /\ [][AttractNext]_vars

\* the pairs within the interaction radius and above the epsilon
InRangePairs(ps, s) ==
  {pair \in ParticleIds \X ParticleIds :
     /\ pair[1] < pair[2]
     /\ PairApplies(ps[pair[1]], ps[pair[2]], s, s.InteractionRadius * s.InteractionRadius)}

\* how often the cell tasks together visit the pair (i, j)
TimesVisited(ps, g, i, j) ==
  Cardinality({kv \in UNION {{<<k, v>> : v \in TaskVisits(ps, g, k)} : k \in DOMAIN g.CellMap} :
                 kv[2][1] = i /\ kv[2][2] = j})

\* the attraction force on particle q by a scan of all pairs: F from every
\* higher index in range, -F from every lower one
PairwiseAttraction(ps, s, q) ==
  LET hSq == s.InteractionRadius * s.InteractionRadius
      term(j) == IF q < j THEN PairForce(ps[q], ps[j], s, s.AttractionFactor, hSq)
                 ELSE LET f == PairForce(ps[j], ps[q], s, s.AttractionFactor, hSq)
                      IN [X |-> -f.X, Y |-> -f.Y]
      others == ParticleIds \ {q}
  IN [X |-> SumOver([j \in others |-> term(j).X], others),
      Y |-> SumOver([j \in others |-> term(j).Y], others)]

\* C26: in CalculateAttractionForces every pair {i, j} within the
\* interaction radius and above the epsilon is processed exactly once
\* across the cell tasks, F being added to the lower index and -F to the
\* higher one; no pair is processed twice and none in range is skipped,
\* also for cells with negative coordinates
C26_PairsOnce ==
  [][(pc = "attraction" /\ pc' = "drag") =>
       /\ \A i \in ParticleIds, j \in ParticleIds :
            /\ TimesVisited(particles, grid, i, j) <= 1
            /\ <<i, j>> \in InRangePairs(particles, sim) =>
                 TimesVisited(particles, grid, i, j) = 1
       /\ \A q \in ParticleIds :
            particles'[q].Force = VecAdd(particles[q].Force,
                                         PairwiseAttraction(particles, sim, q))]_vars

----------------------------------------------------------------------------
(* CalculateAttractionForces visit by visit: the cell tasks run            *)
(* concurrently, then reduceLocalForces merges their maps                  *)

\* the coordinates of the two placed particles: 0..MaxPlace
MaxPlace == 2

\* a task writes to the map of the first task instead of its own
SharedAccumulator(cellKey, cellKeys) == CHOOSE k \in cellKeys : \A j \in cellKeys : k <= j

\* taskAccumulators[taskIdx] for the task of cellKeys[taskIdx]
AccumulatorOf(cellKey, cellKeys) == cellKey

\* the order in which a task makes two of its visits: by neighbour cell,
\* then by p1, then by p2
VisitBefore(v, w) ==
  \/ v[3] < w[3]
  \/ v[3] = w[3] /\ v[4] < w[4]
  \/ v[3] = w[3] /\ v[4] = w[4] /\ v[5] < w[5]

\* vec.X += delta.X; vec.Y += delta.Y on the entry of q, created when missing
AddedTo(accumulator, q, delta) ==
  [x \in DOMAIN accumulator \cup {q} |->
     IF x = q
     THEN VecAdd(IF q \in DOMAIN accumulator THEN accumulator[q] ELSE ZeroVec, delta)
     ELSE accumulator[x]]

\* the visits the task of cellKey has still to make
RemainingVisits(cellKey) ==
  {v \in TaskVisits(particles, grid, cellKey) : <<cellKey, v>> \notin probe.visited}

\* a Step that has reached CalculateAttractionForces with the grid updated
\* from the positions: the task maps are empty and parallelFor starts
AccInit ==
  /\ \E h \in 1..MaxRadius, at0 \in (0..MaxPlace) \X (0..MaxPlace),
        at1 \in (0..MaxPlace) \X (0..MaxPlace) :
       LET params == [AttractionOnly(8) EXCEPT !.InteractionRadius = h]
           placed == [i \in ParticleIds |->
                        LET at == IF i = 0 THEN at0 ELSE IF i = 1 THEN at1 ELSE <<1, 1>>
                        IN [NewParticle(i, SimDomain, params, i)
                              EXCEPT !.X = at[1], !.Y = at[2]]]
           built == Update(NewGrid(h, SimDomain.X, SimDomain.Y), placed)
       IN /\ particles = built.particles
          /\ grid = built.grid
          /\ sim = NewFluidSim(SimDomain, params)
          /\ run = [currentGravity |-> params.Gravity,
                    currentPressureMultiplier |-> params.PressureMultiplier]
          /\ probe = [stage |-> "tasks", before |-> built.particles,
                      taskAccumulators |-> [k \in DOMAIN built.grid.CellMap |-> << >>],
                      visited |-> {}, wrote |-> {}, merged |-> {}]
  /\ pc = "attraction"
  /\ steps = 0
  /\ tunes = 0
  /\ hist = << >>
  /\ stats = [mean |-> 0, std |-> 0]
  /\ pf = NoCall
  /\ workers = NoWorkers
  /\ calls = NoCalls
  /\ prog = NoProgram

\* the task of cellKey makes its next visit: the pair is skipped, or its
\* force is added to the entries of p1 and p2 in the task's map
AccVisit(cellKey) ==
  /\ probe.stage = "tasks"
  /\ cellKey \in DOMAIN grid.CellMap
  /\ RemainingVisits(cellKey) # {}
  /\ LET v == CHOOSE x \in RemainingVisits(cellKey) :
                \A w \in RemainingVisits(cellKey) \ {x} : VisitBefore(x, w)
         hSq == sim.InteractionRadius * sim.InteractionRadius
         f == PairForce(particles[v[1]], particles[v[2]], sim, sim.AttractionFactor, hSq)
         target == AccumulatorOf(cellKey, DOMAIN grid.CellMap)
     IN IF PairApplies(particles[v[1]], particles[v[2]], sim, hSq)
        THEN probe' = [probe EXCEPT
                         !.visited = @ \cup {<<cellKey, v>>},
                         !.wrote = @ \cup {<<cellKey, target>>},
                         !.taskAccumulators[target] =
                            AddedTo(AddedTo(@, v[1], f), v[2], [X |-> -f.X, Y |-> -f.Y])]
        ELSE probe' = [probe EXCEPT !.visited = @ \cup {<<cellKey, v>>}]
  /\ UNCHANGED <<simVars, callVars>>

\* parallelFor returns when every task has returned; reduceLocalForces begins
AccWait ==
  /\ probe.stage = "tasks"
  /\ \A cellKey \in DOMAIN grid.CellMap : RemainingVisits(cellKey) = {}
  /\ probe' = [probe EXCEPT !.stage = "reduce"]
  /\ UNCHANGED <<simVars, callVars>>

\* reduceLocalForces adds one entry of one map to its particle's force; the
\* maps are ranged over in any order
AccMerge ==
  /\ probe.stage = "reduce"
  /\ \E k \in DOMAIN probe.taskAccumulators :
       \E q \in DOMAIN probe.taskAccumulators[k] :
         /\ <<k, q>> \notin probe.merged
         /\ particles' = [particles EXCEPT
                            ![q].Force = VecAdd(@, probe.taskAccumulators[k][q])]
         /\ probe' = [probe EXCEPT !.merged = @ \cup {<<k, q>>}]
  /\ UNCHANGED <<grid, sim, run, pc, steps, tunes, hist, stats, callVars>>

\* reduceLocalForces and CalculateAttractionForces return
AccReturn ==
  /\ probe.stage = "reduce"
  /\ \A k \in DOMAIN probe.taskAccumulators :
       \A q \in DOMAIN probe.taskAccumulators[k] : <<k, q>> \in probe.merged
  /\ probe' = [probe EXCEPT !.stage = "returned"]
  /\ pc' = "drag"
  /\ UNCHANGED <<particles, grid, sim, run, steps, tunes, hist, stats, callVars>>

AccNext ==
  \/ \E cellKey \in DOMAIN grid.CellMap : AccVisit(cellKey)
  \/ AccWait
  \/ AccMerge
  \/ AccReturn

AccSpec == AccInit /\ [][AccNext]_vars

\* the sum of particle q's entries over all task maps
EntriesOf(q) ==
  LET maps == {k \in DOMAIN probe.taskAccumulators : q \in DOMAIN probe.taskAccumulators[k]}
  IN [X |-> SumOver([k \in maps |-> probe.taskAccumulators[k][q].X], maps),
      Y |-> SumOver([k \in maps |-> probe.taskAccumulators[k][q].Y], maps)]

\* C27: during the attraction pass every cell task writes to its own map
\* only and the particle array is not written; the forces are written by
\* the reduction only, which starts after every task has finished, and
\* after it every particle's force has grown by the sum of its entries over
\* all task maps
C27_TaskLocalThenReduce ==
  /\ \A w \in probe.wrote : w[1] = w[2]
  /\ probe.stage = "tasks" => particles = probe.before
  /\ probe.stage \in {"reduce", "returned"} =>
       \A cellKey \in DOMAIN grid.CellMap : RemainingVisits(cellKey) = {}
  /\ probe.stage = "returned" =>
       /\ \A q \in ParticleIds :
            particles[q] = [probe.before[q] EXCEPT !.Force = VecAdd(@, EntriesOf(q))]
       /\ particles = CalculateAttractionForces(probe.before, grid, sim)

\* the pass has returned after two tasks wrote to their maps and a particle
\* had entries in both
C27_Witness ==
  /\ probe.stage = "returned"
  /\ Cardinality(probe.wrote) >= 2
  /\ \E q \in ParticleIds :
       /\ Cardinality({k \in DOMAIN probe.taskAccumulators :
                         q \in DOMAIN probe.taskAccumulators[k]}) >= 2
       /\ particles[q].Force # probe.before[q].Force

----------------------------------------------------------------------------
(* atomicAddFloat64 called by several goroutines on one variable           *)

\* the goroutines that call atomicAddFloat64 concurrently: 1..AddCallers
AddCallers == 3

\* the sign bit of the word that holds a float64
SignBit == 4 * MaxFloat

\* math.Float64bits: sign and magnitude
Float64bits(v) == IF v < 0 THEN SignBit + (-v) ELSE v

\* math.Float64frombits
Float64frombits(b) == IF b >= SignBit THEN -(b - SignBit) ELSE b

\* the word is overwritten whatever it holds
StoreUint64(word, old, new) == [swapped |-> TRUE, word |-> new]

\* atomic.CompareAndSwapUint64: one indivisible step
CompareAndSwapUint64(word, old, new) ==
  [swapped |-> word = old, word |-> IF word = old THEN new ELSE word]

\* the values the variable starts with and the deltas of the callers
AddValues == {-3, 0, 2, MaxFloat, NegInf}

\* every caller is about to enter the loop
AddInit ==
  /\ \E initial \in AddValues, deltas \in [1..AddCallers -> AddValues \ {0}] :
       probe = [word |-> Float64bits(initial), initial |-> initial,
                callers |-> [c \in 1..AddCallers |->
                               [at |-> "load", old |-> 0, delta |-> deltas[c],
                                overtaken |-> FALSE, retries |-> 0]],
                order |-> << >>, unprovoked |-> FALSE]
  /\ SimUnused
  /\ pf = NoCall
  /\ workers = NoWorkers
  /\ calls = NoCalls
  /\ prog = NoProgram

\* old := atomic.LoadUint64(val)
AddLoad(c) ==
  /\ probe.callers[c].at = "load"
  /\ probe' = [probe EXCEPT !.callers[c].at = "swap",
                            !.callers[c].old = probe.word,
                            !.callers[c].overtaken = FALSE]
  /\ UNCHANGED <<simVars, callVars>>

\* new := bits(frombits(old) + delta); return when the swap succeeds, else
\* go round the loop again
AddSwap(c) ==
  /\ probe.callers[c].at = "swap"
  /\ LET me == probe.callers[c]
         new == Float64bits(XAdd(Float64frombits(me.old), me.delta))
         res == CompareAndSwapUint64(probe.word, me.old, new)
     IN IF res.swapped
        THEN probe' = [probe EXCEPT
                         !.word = res.word,
                         !.order = Append(@, c),
                         !.callers = [d \in 1..AddCallers |->
                                        IF d = c THEN [me EXCEPT !.at = "returned"]
                                        ELSE IF probe.callers[d].at = "swap"
                                        THEN [probe.callers[d] EXCEPT !.overtaken = TRUE]
                                        ELSE probe.callers[d]]]
        ELSE probe' = [probe EXCEPT
                         !.word = res.word,
                         !.unprovoked = @ \/ ~me.overtaken,
                         !.callers[c].at = "load",
                         !.callers[c].retries = @ + 1]
  /\ UNCHANGED <<simVars, callVars>>

AddNext == \E c \in 1..AddCallers : AddLoad(c) \/ AddSwap(c)

AddSpec == AddInit /\ [][AddNext]_vars

RECURSIVE AppliedInOrder(_, _, _)
\* the deltas of the callers in order, added to v one after the other
AppliedInOrder(v, order, k) ==
  IF k > Len(order) THEN v
  ELSE AppliedInOrder(XAdd(v, probe.callers[order[k]].delta), order, k + 1)

\* C28: no update is lost: when every caller has returned, the variable
\* holds its initial value with every caller's delta added once, in the
\* order of the successful swaps; and no caller goes round the loop again
\* unless another caller's swap succeeded between its load and its swap
C28_NoLostUpdate ==
  /\ ~probe.unprovoked
  /\ (\A c \in 1..AddCallers : probe.callers[c].at = "returned") =>
       /\ Len(probe.order) = AddCallers
       /\ {probe.order[k] : k \in 1..Len(probe.order)} = 1..AddCallers
       /\ Float64frombits(probe.word) = AppliedInOrder(probe.initial, probe.order, 1)

\* every caller has returned, one of them after going round again, and
\* the variable has changed
C28_Witness ==
  /\ \A c \in 1..AddCallers : probe.callers[c].at = "returned"
  /\ \E c \in 1..AddCallers : probe.callers[c].retries > 0
  /\ Float64frombits(probe.word) # probe.initial

----------------------------------------------------------------------------
(* CalculateStandardForces for two particles that list each other: the     *)
(* terms each accumulates from the other, in float64 arithmetic            *)

\* -a
XNeg(a) == IF a = NaN THEN NaN ELSE -a

\* a == b: false when either is NaN
XEq(a, b) == a # NaN /\ b # NaN /\ a = b

\* CalculateStandardForces for both particles: each adds the terms it
\* computes from the other to its own Force
MutualStandardForces ==
  /\ probe.stage = "standard"
  /\ LET pm == probe.pressureMultiplier
         Sum(a, b, c) == XVec(XAdd(XAdd(a.X, b.X), c.X), XAdd(XAdd(a.Y, b.Y), c.Y))
         pressureOf0 == FloatPressureTerm(probe.p, probe.neighbor, sim, pm)
         viscosityOf0 == FloatViscosityTerm(probe.p, probe.neighbor, sim)
         repulsionOf0 == FloatRepulsionTerm(probe.p, probe.neighbor, sim, pm)
         pressureOf1 == FloatPressureTerm(probe.neighbor, probe.p, sim, pm)
         viscosityOf1 == FloatViscosityTerm(probe.neighbor, probe.p, sim)
         repulsionOf1 == FloatRepulsionTerm(probe.neighbor, probe.p, sim, pm)
         sum0 == Sum(pressureOf0, viscosityOf0, repulsionOf0)
         sum1 == Sum(pressureOf1, viscosityOf1, repulsionOf1)
     IN probe' = [stage |-> "done",
                  pressureMultiplier |-> pm,
                  p |-> [probe.p EXCEPT
                           !.Force = XVec(XAdd(@.X, sum0.X), XAdd(@.Y, sum0.Y))],
                  neighbor |-> [probe.neighbor EXCEPT
                                  !.Force = XVec(XAdd(@.X, sum1.X), XAdd(@.Y, sum1.Y))],
                  pressure |-> <<pressureOf0, pressureOf1>>,
                  viscosity |-> <<viscosityOf0, viscosityOf1>>]
  /\ UNCHANGED <<simVars, callVars>>

MutualNext ==
  \/ FloatUpdatePressure
  \/ MutualStandardForces

MutualSpec == FloatInit /\ [][MutualNext]_vars

\* the two vectors are the negatives of each other
Opposite(a, b) == XEq(a.X, XNeg(b.X)) /\ XEq(a.Y, XNeg(b.Y))

\* C29: for two particles that are neighbours of each other, the pressure
\* term and the viscosity term that one accumulates from the other are the
\* exact negatives of the terms the other accumulates from it
C29_TermsAntisymmetric ==
  probe.stage = "done" =>
    /\ Opposite(probe.pressure[1], probe.pressure[2])
    /\ Opposite(probe.viscosity[1], probe.viscosity[2])

\* the terms are opposite whenever none of their components is NaN
C29_OppositeUnlessNaN ==
  probe.stage = "done" =>
    \A t \in {probe.pressure, probe.viscosity} :
      (\A k \in 1..2 : t[k].X # NaN /\ t[k].Y # NaN) => Opposite(t[1], t[2])

\* both particles have accumulated non-zero pressure and viscosity terms
C29_Exercised ==
  /\ probe.stage = "done"
  /\ probe.pressure[1] # ZeroVec
  /\ probe.viscosity[1] # ZeroVec
  /\ IsFinite(probe.pressure[1].X) /\ IsFinite(probe.viscosity[1].X)

====
